---- MODULE Spec2Model ----
(***************************************************************************)
(* Card generator page of Repo Inspector (app/static/app.js): the form     *)
(* (Config Model), the import codec, the export codec, the availability    *)
(* rules and the preview dispatcher, as a state machine over the DOM       *)
(* state the handlers read and write.                                      *)
(*                                                                         *)
(* Texts are TLA+ strings handled character by character (Len, SubSeq,     *)
(* \o), so that the regular expressions and conversions of the source are  *)
(* computed, not assumed.  An optional value (null or a string) is the     *)
(* empty tuple or a one-element tuple.                                     *)
(***************************************************************************)
EXTENDS Integers, Sequences, FiniteSets, TLC

\* ------------------------------------------------------------------------
\* Characters and strings
\* ------------------------------------------------------------------------

None == <<>>
Some(v) == <<v>>
IsSome(o) == Len(o) = 1
Val(o) == o[1]

\* The character at index i of s; the empty string outside s.
Ch(s, i) == IF i >= 1 /\ i <= Len(s) THEN SubSeq(s, i, i) ELSE ""
From(s, i) == SubSeq(s, i, Len(s))

Min(a, b) == IF a < b THEN a ELSE b
Max(a, b) == IF a > b THEN a ELSE b

\* \s of the regular expressions, on the characters the inputs use.
IsSpace(c) == c = " "

\* First index in lo..hi of s whose character is in the set cs; 0 when none.
\* (Halving keeps the evaluation shallow on long texts.)
RECURSIVE FindIn(_, _, _, _)
FindIn(s, cs, lo, hi) ==
    IF lo > hi THEN 0
    ELSE IF lo = hi THEN (IF Ch(s, lo) \in cs THEN lo ELSE 0)
    ELSE LET mid == (lo + hi) \div 2
             left == FindIn(s, cs, lo, mid)
         IN  IF left # 0 THEN left ELSE FindIn(s, cs, mid + 1, hi)

\* First index >= i of s whose character is in the set cs; 0 when none.
FindAny(s, cs, i) == FindIn(s, cs, Max(i, 1), Len(s))

\* s with every character c replaced by F(c).
RECURSIVE MapStr(_, _)
MapStr(F(_), s) ==
    IF Len(s) = 0 THEN s
    ELSE IF Len(s) = 1 THEN F(s)
    ELSE LET mid == Len(s) \div 2
         IN  MapStr(F, SubSeq(s, 1, mid)) \o MapStr(F, From(s, mid + 1))

\* First index >= i of s whose character is not a space; Len(s)+1 when none.
RECURSIVE SkipSpaces(_, _)
SkipSpaces(s, i) ==
    IF i > Len(s) THEN i
    ELSE IF IsSpace(Ch(s, i)) THEN SkipSpaces(s, i + 1)
    ELSE i

RECURSIVE TrimEnd(_)
TrimEnd(s) ==
    IF Len(s) = 0 THEN s
    ELSE IF IsSpace(Ch(s, Len(s))) THEN TrimEnd(SubSeq(s, 1, Len(s) - 1))
    ELSE s

\* String.prototype.trim
Trim(s) == TrimEnd(From(s, SkipSpaces(s, 1)))

StartsWith(s, p) == Len(s) >= Len(p) /\ SubSeq(s, 1, Len(p)) = p
EndsWith(s, p) == Len(s) >= Len(p) /\ From(s, Len(s) - Len(p) + 1) = p
HasAny(s, cs) == FindAny(s, cs, 1) # 0

UpperChars == "ABCDEFGHIJKLMNOPQRSTUVWXYZ"
LowerChars == "abcdefghijklmnopqrstuvwxyz"

\* The characters of a text as a set, and the index of each in the text
\* (its first, if it occurs twice).
CharSet(s) == {Ch(s, i) : i \in 1..Len(s)}
IndexOf(s) == [c \in CharSet(s) |-> CHOOSE i \in 1..Len(s) :
                                       Ch(s, i) = c /\ \A j \in 1..(i - 1) : Ch(s, j) # c]

UpperSet == CharSet(UpperChars)
LowerSet == CharSet(LowerChars)
UpperIndex == IndexOf(UpperChars)
LowerIndex == IndexOf(LowerChars)

LowerCh(c) == IF c \in UpperSet THEN Ch(LowerChars, UpperIndex[c]) ELSE c
UpperCh(c) == IF c \in LowerSet THEN Ch(UpperChars, LowerIndex[c]) ELSE c

\* String.prototype.toLowerCase / toUpperCase
ToLower(s) == MapStr(LowerCh, s)
ToUpper(s) == MapStr(UpperCh, s)

\* String.prototype.split(sep) for a one-character separator (split at a
\* separator near the middle, then each side).
RECURSIVE Split(_, _)
Split(s, sep) ==
    LET after == FindAny(s, {sep}, (Len(s) \div 2) + 1)
        k == IF after # 0 THEN after ELSE FindAny(s, {sep}, 1)
    IN  IF k = 0 THEN <<s>>
        ELSE Split(SubSeq(s, 1, k - 1), sep) \o Split(From(s, k + 1), sep)

\* Array.prototype.join(sep)
RECURSIVE Join(_, _)
Join(q, sep) ==
    IF Len(q) = 0 THEN ""
    ELSE IF Len(q) = 1 THEN q[1]
    ELSE LET mid == Len(q) \div 2
         IN  Join(SubSeq(q, 1, mid), sep) \o sep \o Join(SubSeq(q, mid + 1, Len(q)), sep)

Range(q) == {q[i] : i \in 1..Len(q)}

\* value.replace(/\.git$/i, "")
StripGit(s) ==
    IF Len(s) >= 4 /\ ToLower(From(s, Len(s) - 3)) = ".git"
    THEN SubSeq(s, 1, Len(s) - 4)
    ELSE s

\* ------------------------------------------------------------------------
\* Numbers: Number(text), String(number), Math.min, Math.max
\* ------------------------------------------------------------------------

\* A JavaScript number: a finite integer, NaN, or an infinity (v is its sign).
Num(n) == [k |-> "num", v |-> n]
NaN == [k |-> "nan", v |-> 0]
Inf(sign) == [k |-> "inf", v |-> sign]

Digits == "0123456789"
DigitSet == CharSet(Digits)
DigitIndex == IndexOf(Digits)
IsDigit(c) == c \in DigitSet
DigitVal(c) == DigitIndex[c] - 1

AllDigits(s) == \A i \in 1..Len(s) : IsDigit(Ch(s, i))

RECURSIVE DigitsVal(_)
DigitsVal(s) ==
    IF Len(s) = 0 THEN 0
    ELSE DigitsVal(SubSeq(s, 1, Len(s) - 1)) * 10 + DigitVal(Ch(s, Len(s)))

\* Number(text) on decimal integer texts, the infinities and everything the
\* grammar of numeric literals rejects.  (Fractions, exponents and 0x/0b/0o
\* literals are not among the texts drawn.)
NumberOf(text) ==
    LET s == Trim(text)
        signed == Len(s) > 0 /\ Ch(s, 1) \in {"+", "-"}
        sign == IF Len(s) > 0 /\ Ch(s, 1) = "-" THEN -1 ELSE 1
        body == IF signed THEN From(s, 2) ELSE s
    IN  IF Len(s) = 0 THEN Num(0)
        ELSE IF body = "Infinity" THEN Inf(sign)
        ELSE IF Len(body) > 0 /\ AllDigits(body) THEN Num(sign * DigitsVal(body))
        ELSE NaN

RECURSIVE NatToStr(_)
NatToStr(n) ==
    IF n < 10 THEN Ch(Digits, n + 1)
    ELSE NatToStr(n \div 10) \o Ch(Digits, (n % 10) + 1)

\* String(number)
NumToStr(x) ==
    IF x.k = "nan" THEN "NaN"
    ELSE IF x.k = "inf" THEN (IF x.v < 0 THEN "-Infinity" ELSE "Infinity")
    ELSE IF x.v < 0 THEN "-" \o NatToStr(-x.v)
    ELSE NatToStr(x.v)

IsFinite(x) == x.k = "num"

\* a <= b on non-NaN numbers
NumLeq(a, b) ==
    IF a.k = "inf" THEN (a.v < 0 \/ (b.k = "inf" /\ b.v > 0))
    ELSE IF b.k = "inf" THEN b.v > 0
    ELSE a.v <= b.v

\* Math.min / Math.max: NaN if either argument is NaN.
MathMin(a, b) ==
    IF a.k = "nan" \/ b.k = "nan" THEN NaN
    ELSE IF NumLeq(a, b) THEN a ELSE b

MathMax(a, b) ==
    IF a.k = "nan" \/ b.k = "nan" THEN NaN
    ELSE IF NumLeq(a, b) THEN b ELSE a

\* A clamp that gives the lower bound, not the fallback, for a value that is
\* no finite number (what C31 excludes).
clampNumberNoFallback(value, min, max, fallback) ==
    LET number == NumberOf(value)
    IN  IF ~IsFinite(number) THEN Num(min)
        ELSE MathMax(Num(min), MathMin(Num(max), number))

\* clampNumber(value, min, max, fallback)
clampNumber(value, min, max, fallback) ==
    LET number == NumberOf(value)
    IN  IF ~IsFinite(number) THEN Num(fallback)
        ELSE MathMax(Num(min), MathMin(Num(max), number))

\* parseBooleanValue(value, fallback); value is optional (null or a text).
parseBooleanValue(value, fallback) ==
    IF ~IsSome(value) THEN fallback
    ELSE LET normalized == ToLower(Trim(Val(value)))
         IN  IF normalized \in {"1", "true", "yes", "on"} THEN TRUE
             ELSE IF normalized \in {"0", "false", "no", "off"} THEN FALSE
             ELSE fallback

\* ------------------------------------------------------------------------
\* Percent-encoding (encodeURIComponent, decodeURIComponent, URLSearchParams)
\* ------------------------------------------------------------------------

\* The printable ASCII characters, codes 32..126, in order (the grave accent,
\* code 96, cannot be written in a string of this language: "?" holds its place).
Ascii ==
    " !\"#$%&'()*+,-./0123456789:;<=>?@ABCDEFGHIJKLMNOPQRSTUVWXYZ[\\]^_?abcdefghijklmnopqrstuvwxyz{|}~"

HexDigits == "0123456789ABCDEF"
HexSet == CharSet(HexDigits)
HexIndex == IndexOf(HexDigits)
IsHex(c) == UpperCh(c) \in HexSet
HexVal(c) == HexIndex[UpperCh(c)] - 1

AsciiSet == CharSet(Ascii)
AsciiIndex == IndexOf(Ascii)
CharCode(c) == AsciiIndex[c] + 31
\* The character of a byte; bytes outside printable ASCII decode to "?"
\* (the replacement character of a lenient decoder).
CodeChar(n) == IF n >= 32 /\ n <= 126 THEN Ch(Ascii, n - 31) ELSE "?"

\* "%XX" of each character.
PercentTable ==
    [c \in AsciiSet |->
        "%" \o Ch(HexDigits, (CharCode(c) \div 16) + 1) \o Ch(HexDigits, (CharCode(c) % 16) + 1)]
PercentOf(c) == PercentTable[c]

AlnumSet == DigitSet \cup UpperSet \cup LowerSet
IsAlnum(c) == c \in AlnumSet

\* encodeURIComponent: everything but A-Z a-z 0-9 - _ . ! ~ * ' ( ) is escaped.
EncodeComponentCh(c) ==
    IF IsAlnum(c) \/ c \in {"-", "_", ".", "!", "~", "*", "'", "(", ")"}
    THEN c ELSE PercentOf(c)

encodeURIComponent(s) == MapStr(EncodeComponentCh, s)

\* The form-urlencoded serializer of URLSearchParams.toString(): space is "+",
\* everything but A-Z a-z 0-9 * - . _ is escaped.
FormEncodeCh(c) ==
    IF c = " " THEN "+"
    ELSE IF IsAlnum(c) \/ c \in {"*", "-", ".", "_"} THEN c
    ELSE PercentOf(c)

FormEncode(s) == MapStr(FormEncodeCh, s)

\* The text after a "%": whether it starts with two hex digits, and their byte.
IsEscape(p) == Len(p) >= 2 /\ IsHex(Ch(p, 1)) /\ IsHex(Ch(p, 2))
EscapeByte(p) == HexVal(Ch(p, 1)) * 16 + HexVal(Ch(p, 2))

\* Lenient percent-decoding (URL parser, URLSearchParams): a "%" that does not
\* start an escape is kept as it is.  The text is cut at its "%" signs; every
\* piece after the first followed one.
PercentDecode(s) ==
    LET pieces == Split(s, "%")
        Piece(i) == IF i = 1 THEN pieces[1]
                    ELSE IF IsEscape(pieces[i])
                    THEN CodeChar(EscapeByte(pieces[i])) \o From(pieces[i], 3)
                    ELSE "%" \o pieces[i]
    IN  Join([i \in 1..Len(pieces) |-> Piece(i)], "")

\* decodeURIComponent throws URIError on a "%" that starts no escape, and on a
\* byte >= 0x80 that is not part of a well-formed UTF-8 sequence (the inputs
\* drawn hold no multi-byte sequences).
DecodeThrows(s) ==
    LET pieces == Split(s, "%")
    IN  \E i \in 2..Len(pieces) : ~IsEscape(pieces[i]) \/ EscapeByte(pieces[i]) >= 128

decodeURIComponent(s) == PercentDecode(s)

\* ------------------------------------------------------------------------
\* new URL(input, window.location.origin) and url.searchParams
\* ------------------------------------------------------------------------

\* window.location.origin of the page.
Origin == "https://ri.test"

SchemeChars == {"+", "-", "."}

AllSchemeChars(s) == \A i \in 1..Len(s) : IsAlnum(Ch(s, i)) \/ Ch(s, i) \in SchemeChars

\* Index of the ":" ending a scheme at the start of s; 0 when s has no scheme.
SchemeEnd(s) ==
    LET c == FindAny(s, {":"}, 1)
    IN  IF c > 1 /\ ~IsDigit(Ch(s, 1)) /\ IsAlnum(Ch(s, 1))
           /\ AllSchemeChars(SubSeq(s, 1, c - 1))
        THEN c ELSE 0

RECURSIVE SkipSlashes(_, _)
SkipSlashes(s, i) == IF Ch(s, i) = "/" THEN SkipSlashes(s, i + 1) ELSE i

\* The path percent-encode set of the URL parser, on the characters used.
PathEncodeCh(c) == IF c \in {" ", "\"", "<", ">", "{", "}"} THEN PercentOf(c) ELSE c
PathEncode(s) ==
    IF HasAny(s, {" ", "\"", "<", ">", "{", "}"}) THEN MapStr(PathEncodeCh, s) ELSE s

\* "+" is a space in a form-urlencoded name or value.
PlusCh(c) == IF c = "+" THEN " " ELSE c
FormDecode(s) == IF HasAny(s, {"+", "%"}) THEN PercentDecode(MapStr(PlusCh, s)) ELSE s

\* One "name=value" piece of a query string, decoded.
ParsePair(piece) ==
    LET eq == FindAny(piece, {"="}, 1)
        name == IF eq = 0 THEN piece ELSE SubSeq(piece, 1, eq - 1)
        value == IF eq = 0 THEN "" ELSE From(piece, eq + 1)
    IN  <<FormDecode(name), FormDecode(value)>>

\* The name/value pairs of a query string (without its "?"), in order.
SearchParams(query) ==
    LET pieces == SelectSeq(Split(query, "&"), LAMBDA piece : Len(piece) > 0)
    IN  [i \in 1..Len(pieces) |-> ParsePair(pieces[i])]

\* URLSearchParams.get(name): the first value of that name, or null.
ParamsGet(params, name) ==
    LET hits == {i \in 1..Len(params) : params[i][1] = name}
    IN  IF hits = {} THEN None
        ELSE Some(params[CHOOSE i \in hits : \A j \in hits : i <= j][2])

\* new URL(input, Origin): [ok, pathname, params]; ok = FALSE is the TypeError
\* thrown for an http(s) URL with an empty or ill-formed host.  A reference
\* without scheme is resolved against the origin, whose path is "/".
\* ("." and ".." path segments, backslashes and "//host" references are not
\* among the inputs drawn.)
ParseURL(input) ==
    LET s0 == Trim(input)
        h == FindAny(s0, {"#"}, 1)
        s1 == IF h = 0 THEN s0 ELSE SubSeq(s0, 1, h - 1)
        q == FindAny(s1, {"?"}, 1)
        rest == IF q = 0 THEN s1 ELSE SubSeq(s1, 1, q - 1)
        query == IF q = 0 THEN "" ELSE From(s1, q + 1)
        c == SchemeEnd(rest)
        scheme == IF c = 0 THEN "" ELSE ToLower(SubSeq(rest, 1, c - 1))
        special == scheme \in {"http", "https"}
        hs == SkipSlashes(rest, c + 1)
        he == FindAny(rest, {"/"}, hs)
        host == IF he = 0 THEN From(rest, hs) ELSE SubSeq(rest, hs, he - 1)
        path == IF c = 0
                THEN (IF StartsWith(rest, "/") THEN rest ELSE "/" \o rest)
                ELSE IF special
                THEN (IF he = 0 THEN "/" ELSE From(rest, he))
                ELSE From(rest, c + 1)
    IN  [ok |-> ~(special /\ (Len(host) = 0 \/ HasAny(host, {" ", "<", ">", "%", "^", "|"}))),
         pathname |-> PathEncode(path),
         params |-> SearchParams(query)]

\* ------------------------------------------------------------------------
\* Import codec
\* ------------------------------------------------------------------------

GENERATOR_THEME_KEYS ==
    <<"bg_start", "bg_end", "border", "panel", "overlay", "chip_bg", "chip_text",
      "text", "muted", "accent", "accent_2", "accent_soft", "track", "pass",
      "warn", "fail">>

ThemeKeys == Range(GENERATOR_THEME_KEYS)

AllHex(s) == \A i \in 1..Len(s) : IsHex(Ch(s, i))

\* HEX_COLOR_RE = /^#(?:[0-9a-fA-F]{3}|[0-9a-fA-F]{6})$/
HEX_COLOR_RE(raw) == Ch(raw, 1) = "#" /\ Len(raw) \in {4, 7} /\ AllHex(From(raw, 2))

\* A normalisation that keeps the 3-digit shorthand as it is (what C15
\* excludes).
normalizeHexColorNoExpand(value) ==
    IF ~HEX_COLOR_RE(Trim(value)) THEN None ELSE Some(ToUpper(Trim(value)))

\* normalizeHexColor(value): null, or the 6-digit upper-case colour.
normalizeHexColor(value) ==
    LET raw == Trim(value)
    IN  IF ~HEX_COLOR_RE(raw) THEN None
        ELSE IF Len(raw) = 4
        THEN Some(ToUpper("#" \o Ch(raw, 2) \o Ch(raw, 2) \o Ch(raw, 3) \o Ch(raw, 3)
                          \o Ch(raw, 4) \o Ch(raw, 4)))
        ELSE Some(ToUpper(raw))

\* Index just after "![...](" and the spaces that follow, for a Markdown image
\* starting at i; 0 when none starts there.
MdBodyStart(s, i) ==
    LET j == FindAny(s, {"]"}, i + 2)
    IN  IF SubSeq(s, i, Min(i + 1, Len(s))) = "![" /\ j # 0 /\ Ch(s, j + 1) = "("
        THEN SkipSpaces(s, j + 2) ELSE 0

\* /!\[[^\]]*]\(\s*<([^>]+)>\s*\)/ matched at i: the capture, or null.
MdAngleAt(s, i) ==
    LET k == MdBodyStart(s, i)
        m == FindAny(s, {">"}, k + 1)
    IN  IF k # 0 /\ Ch(s, k) = "<" /\ m > k + 1 /\ Ch(s, SkipSpaces(s, m + 1)) = ")"
        THEN Some(SubSeq(s, k + 1, m - 1)) ELSE None

\* /!\[[^\]]*]\(\s*([^\s)]+)(?:\s+["'][^"']*["'])?\s*\)/ matched at i.
MdPlainAt(s, i) ==
    LET k == MdBodyStart(s, i)
        stop == FindAny(s, {" ", ")"}, k)
        e == IF stop = 0 THEN Len(s) + 1 ELSE stop
        t == SkipSpaces(s, e)
        q == FindAny(s, {"\"", "'"}, t + 1)
        titled == t > e /\ Ch(s, t) \in {"\"", "'"} /\ q # 0
                  /\ Ch(s, SkipSpaces(s, q + 1)) = ")"
        plain == Ch(s, t) = ")"
    IN  IF k # 0 /\ e > k /\ (titled \/ plain)
        THEN Some(SubSeq(s, k, e - 1)) ELSE None

\* The leftmost match of an unanchored pattern.
FirstMatch(At(_, _), s) ==
    LET hits == {i \in 1..Len(s) : IsSome(At(s, i))}
    IN  IF hits = {} THEN None
        ELSE At(s, CHOOSE i \in hits : \A j \in hits : i <= j)

\* input.replace(/^<|>$/g, "")
StripAngles(s) ==
    LET a == IF StartsWith(s, "<") THEN From(s, 2) ELSE s
    IN  IF EndsWith(a, ">") THEN SubSeq(a, 1, Len(a) - 1) ELSE a

extractGeneratorImportUrl(value) ==
    LET input == Trim(value)
        mdAngle == FirstMatch(MdAngleAt, input)
        mdPlain == FirstMatch(MdPlainAt, input)
    IN  IF Len(input) = 0 THEN ""
        ELSE IF IsSome(mdAngle) /\ Len(Val(mdAngle)) > 0 THEN Trim(Val(mdAngle))
        ELSE IF IsSome(mdPlain) /\ Len(Val(mdPlain)) > 0 THEN Trim(Val(mdPlain))
        ELSE Trim(StripAngles(input))

\* What a parse returns: tag "null" (no match), "throw" (an exception escapes),
\* or "ok" with shape one of request, path, github, short.  A field the
\* JavaScript object lacks (undefined) or holds as null is None.
Parsed(tag, shape, owner, repo, kind, format, params) ==
    [tag |-> tag, shape |-> shape, owner |-> owner, repo |-> repo,
     kind |-> kind, format |-> format,
     theme |-> ParamsGet(params, "theme"),
     locale |-> ParamsGet(params, "locale"),
     title |-> ParamsGet(params, "title"),
     hide |-> ParamsGet(params, "hide"),
     width |-> ParamsGet(params, "card_width"),
     langs |-> ParamsGet(params, "langs_count"),
     animate |-> ParamsGet(params, "animate"),
     animation |-> ParamsGet(params, "animation"),
     duration |-> ParamsGet(params, "duration"),
     cacheSeconds |-> ParamsGet(params, "cache_seconds"),
     includeReport |-> ParamsGet(params, "include_report"),
     fields |-> ParamsGet(params, "fields"),
     colors |-> [key \in ThemeKeys |->
                   LET raw == ParamsGet(params, key)
                   IN  normalizeHexColor(IF IsSome(raw) THEN Val(raw) ELSE "")]]

NullParse == Parsed("null", "", "", "", None, None, <<>>)
ThrowParse == Parsed("throw", "", "", "", None, None, <<>>)
RepoParse(shape, owner, repo) == Parsed("ok", shape, owner, repo, None, None, <<>>)

\* url.pathname.match(/^\/api\/stats\/(repo|quality)\/([^/]+)\/([^/.]+)\.(svg|json)$/i):
\* the four groups, or the empty tuple.
StatsMatch(pathname) ==
    LET seg == Split(pathname, "/")
        file == seg[6]
        dot == FindAny(file, {"."}, 1)
    IN  IF /\ Len(seg) = 6
           /\ seg[1] = "" /\ ToLower(seg[2]) = "api" /\ ToLower(seg[3]) = "stats"
           /\ ToLower(seg[4]) \in {"repo", "quality"}
           /\ Len(seg[5]) > 0
           /\ dot > 1
           /\ ToLower(From(file, dot + 1)) \in {"svg", "json"}
        THEN <<seg[4], seg[5], SubSeq(file, 1, dot - 1), From(file, dot + 1)>>
        ELSE <<>>

\* (params.get(name) || fallback)
OrElse(raw, fallback) ==
    IF IsSome(raw) /\ Len(Val(raw)) > 0 THEN Val(raw) ELSE fallback

\* if (!owner || !repo) return null; otherwise the parsed object.
ApiImportResult(shape, owner, repo, kind, format, params) ==
    IF Len(owner) = 0 \/ Len(repo) = 0 THEN NullParse
    ELSE Parsed("ok", shape, owner, repo,
                Some(IF kind = "quality" THEN "quality" ELSE "repo"),
                Some(IF format = "json" THEN "json" ELSE "svg"),
                params)

\* The branch taken when the owner and repo parameters are both present.
RequestImport(params) ==
    ApiImportResult("request",
                    Trim(Val(ParamsGet(params, "owner"))),
                    StripGit(Trim(Val(ParamsGet(params, "repo")))),
                    ToLower(Trim(OrElse(ParamsGet(params, "kind"), "repo"))),
                    ToLower(Trim(OrElse(ParamsGet(params, "format"), "svg"))),
                    params)

\* The branch taken otherwise: the path must match, and its owner and repo
\* segments are decoded outside any try block.
PathImport(statsMatch, params) ==
    IF statsMatch = <<>> THEN NullParse
    ELSE IF DecodeThrows(statsMatch[2]) \/ DecodeThrows(statsMatch[3]) THEN ThrowParse
    ELSE ApiImportResult("path",
                         decodeURIComponent(statsMatch[2]),
                         StripGit(decodeURIComponent(statsMatch[3])),
                         ToLower(statsMatch[1]),
                         ToLower(statsMatch[4]),
                         params)

\* if (ownerRaw && repoRaw)
IsRequest(ownerRaw, repoRaw) ==
    /\ IsSome(ownerRaw) /\ IsSome(repoRaw)
    /\ Len(Val(ownerRaw)) > 0 /\ Len(Val(repoRaw)) > 0

ApiImportFromUrl(url) ==
    IF ~url.ok THEN NullParse
    ELSE IF IsRequest(ParamsGet(url.params, "owner"), ParamsGet(url.params, "repo"))
    THEN RequestImport(url.params)
    ELSE PathImport(StatsMatch(url.pathname), url.params)

ApiImportOf(input) ==
    IF Len(input) = 0 THEN NullParse ELSE ApiImportFromUrl(ParseURL(input))

parseGeneratorApiImport(value) ==
    ApiImportOf(extractGeneratorImportUrl(value))

\* input.match(/^https?:\/\/github\.com\/([^/\s]+)\/([^/\s?#]+)(?:[/?#].*)?$/i):
\* the two groups, or the empty tuple.
UrlMatch(input) ==
    LET low == ToLower(input)
        p == IF StartsWith(low, "https://github.com/") THEN 20
             ELSE IF StartsWith(low, "http://github.com/") THEN 19 ELSE 0
        slash == FindAny(input, {"/"}, p)
        owner == SubSeq(input, p, slash - 1)
        stop == FindAny(input, {"/", " ", "?", "#"}, slash + 1)
        e == IF stop = 0 THEN Len(input) + 1 ELSE stop
    IN  IF p # 0 /\ slash > p /\ ~HasAny(owner, {" "})
           /\ e > slash + 1 /\ Ch(input, e) # " "
        THEN <<owner, SubSeq(input, slash + 1, e - 1)>>
        ELSE <<>>

\* input.match(/^([^/\s]+)\/([^/\s]+)$/)
ShortMatch(input) ==
    LET slash == FindAny(input, {"/"}, 1)
    IN  IF slash > 1 /\ slash < Len(input) /\ FindAny(input, {"/"}, slash + 1) = 0
           /\ ~HasAny(input, {" "})
        THEN <<SubSeq(input, 1, slash - 1), From(input, slash + 1)>>
        ELSE <<>>

\* The GitHub URL pattern first, the owner/repo shorthand second.
RepoImportFromMatches(urlMatch, shortMatch) ==
    IF urlMatch # <<>>
    THEN (IF Len(StripGit(urlMatch[2])) > 0
          THEN RepoParse("github", urlMatch[1], StripGit(urlMatch[2])) ELSE NullParse)
    ELSE IF shortMatch # <<>>
    THEN (IF Len(StripGit(shortMatch[2])) > 0
          THEN RepoParse("short", shortMatch[1], StripGit(shortMatch[2])) ELSE NullParse)
    ELSE NullParse

RepoImportOf(input) ==
    IF Len(input) = 0 THEN NullParse
    ELSE RepoImportFromMatches(UrlMatch(input), ShortMatch(input))

\* if (apiImport) return apiImport; a null falls through to the patterns.
ApiImportOr(apiImport, value) ==
    IF apiImport.tag # "null" THEN apiImport
    ELSE RepoImportOf(extractGeneratorImportUrl(value))

parseGeneratorImport(value) ==
    ApiImportOr(parseGeneratorApiImport(value), value)

\* ------------------------------------------------------------------------
\* The static generator page: its import parser
\* ------------------------------------------------------------------------

\* The same function body as extractGeneratorImportUrl.
extractImportUrl(value) == extractGeneratorImportUrl(value)

\* parseApiImport differs from parseGeneratorApiImport in one key: its object
\* has no fields entry.
parseApiImport(value) ==
    [parseGeneratorApiImport(value) EXCEPT !.fields = None]

\* REPO_RE.exec(input) for
\* /^https?:\/\/github\.com\/([^/\s]+)\/([^/\s#]+?)(?:\.git)?\/?$/: the two
\* groups, or the empty tuple.  The pattern has no i flag and is anchored at
\* the end: after the owner come the repo (lazy), one optional ".git", one
\* optional "/", and nothing else.
RepoReGroups(owner, body) ==
    IF HasAny(owner, {" "}) \/ Len(body) = 0 \/ HasAny(body, {"/", " ", "#"}) THEN <<>>
    ELSE IF Len(body) > 4 /\ EndsWith(body, ".git")
    THEN <<owner, SubSeq(body, 1, Len(body) - 4)>>
    ELSE <<owner, body>>

RepoReAfterOwner(owner, rest) ==
    RepoReGroups(owner, IF EndsWith(rest, "/") THEN SubSeq(rest, 1, Len(rest) - 1) ELSE rest)

RepoReFrom(input, p, slash) ==
    IF p = 0 \/ slash <= p THEN <<>>
    ELSE RepoReAfterOwner(SubSeq(input, p, slash - 1), From(input, slash + 1))

RepoReAt(input, p) == RepoReFrom(input, p, FindAny(input, {"/"}, p))

REPO_RE(input) ==
    RepoReAt(input, IF StartsWith(input, "https://github.com/") THEN 20
                    ELSE IF StartsWith(input, "http://github.com/") THEN 19 ELSE 0)

\* if (match) return { owner: match[1], repo: match[2] }; the shorthand
\* second, its repo without a trailing .git and returned even when empty.
StaticRepoImportFromMatches(match, shortMatch) ==
    IF match # <<>> THEN RepoParse("github", match[1], match[2])
    ELSE IF shortMatch # <<>>
    THEN RepoParse("short", shortMatch[1], StripGit(shortMatch[2]))
    ELSE NullParse

StaticRepoImportOf(input) ==
    IF Len(input) = 0 THEN NullParse
    ELSE StaticRepoImportFromMatches(REPO_RE(input), ShortMatch(input))

StaticApiImportOr(apiImport, value) ==
    IF apiImport.tag # "null" THEN apiImport
    ELSE StaticRepoImportOf(extractImportUrl(value))

parseImportValue(value) ==
    StaticApiImportOr(parseApiImport(value), value)

\* ------------------------------------------------------------------------
\* The generator page: its controls
\* ------------------------------------------------------------------------

GENERATOR_SVG_ONLY_IDS ==
    {"gen-theme", "gen-title", "gen-hide", "gen-width", "gen-animate",
     "gen-animation", "gen-duration", "gen-cache-seconds"}

PaletteControlIds ==
    {"gen-theme-preset", "gen-apply-preset", "gen-randomize-palette", "gen-reset-palette"}

\* How many of the .gen-hide-option / .gen-field-option checkboxes of the page
\* are modelled (the first ones of each list, in document order).
MaxHideOptions == 4
MaxFieldOptions == 3

\* The .gen-hide-option checkboxes with their data-kinds, in document order
\* (the page template holds them).
HideOptionList ==
    <<[value |-> "stars", kinds |-> {"repo"}],
      [value |-> "forks", kinds |-> {"repo"}],
      [value |-> "footer", kinds |-> {"repo", "quality"}],
      [value |-> "ring", kinds |-> {"quality"}],
      [value |-> "description", kinds |-> {"repo"}],
      [value |-> "languages", kinds |-> {"repo"}],
      [value |-> "meta", kinds |-> {"repo", "quality"}],
      [value |-> "issues", kinds |-> {"repo"}],
      [value |-> "watchers", kinds |-> {"repo"}],
      [value |-> "status", kinds |-> {"quality"}],
      [value |-> "lines", kinds |-> {"quality"}],
      [value |-> "stacks", kinds |-> {"quality"}],
      [value |-> "commit", kinds |-> {"quality"}],
      [value |-> "categories", kinds |-> {"quality"}]>>

HideOptions == SubSeq(HideOptionList, 1, Min(MaxHideOptions, Len(HideOptionList)))
HideValues == {HideOptions[i].value : i \in 1..Len(HideOptions)}
HideAllowed(kind) == {HideOptions[i].value : i \in {j \in 1..Len(HideOptions) : kind \in HideOptions[j].kinds}}

\* GENERATOR_JSON_FIELDS
GENERATOR_JSON_FIELDS ==
    [repo |-> <<"owner", "name", "full_name", "html_url", "description", "stars",
                "forks", "open_issues", "watchers", "default_branch",
                "primary_language", "license_name", "topics", "archived", "is_fork",
                "size_kb", "created_at", "updated_at", "pushed_at", "homepage",
                "has_releases", "has_tags", "languages", "language_total_bytes">>,
     quality |-> <<"job_id", "commit_sha", "finished_at", "score_total", "report_url",
                   "total_code_lines", "total_code_files", "scanned_code_files",
                   "status_counts", "category_scores", "detected_stacks", "source",
                   "report">>]

\* The field names of a kind that the model keeps.
JsonFields(kind) ==
    SubSeq(GENERATOR_JSON_FIELDS[kind], 1, Min(MaxFieldOptions, Len(GENERATOR_JSON_FIELDS[kind])))

\* The .gen-field-option checkboxes, in document order: one per field name of
\* each kind, its data-kinds the kind it belongs to.
FieldOptions ==
    [i \in 1..Len(JsonFields("repo")) |-> [value |-> JsonFields("repo")[i], kinds |-> {"repo"}]]
    \o [i \in 1..Len(JsonFields("quality")) |->
          [value |-> JsonFields("quality")[i], kinds |-> {"quality"}]]
FieldValues == {FieldOptions[i].value : i \in 1..Len(FieldOptions)}
FieldAllowed(kind) == {FieldOptions[i].value : i \in {j \in 1..Len(FieldOptions) : kind \in FieldOptions[j].kinds}}

\* The <option>s of the gen-theme select (the page template holds them).
ThemeOptions == {"ocean", "nord", "custom"}

AnimationModes == {"all", "soft", "bars", "ring", "none"}

GENERATOR_THEME_PRESETS ==
    [ocean |-> <<"#F8FBFF", "#EEF5FF", "#A8CBFF", "#FFFFFF", "#EDF4FF", "#E7F0FF",
                 "#2D4E83", "#14284B", "#3F6191", "#16A4E0", "#1AB9A2", "#B8DBFF",
                 "#D3E3FB", "#0F7F39", "#B55A0C", "#BE1D2D">>,
     ember |-> <<"#2E120C", "#431A12", "#8C3E2A", "#35160F", "#2C130D", "#4C2117",
                 "#FFD6B7", "#FFEDE1", "#E5B79A", "#FF6A3D", "#FFB347", "#6B2A1D",
                 "#6A2F22", "#58D68D", "#FFC14A", "#FF6E6E">>,
     neon |-> <<"#090B1B", "#140F2B", "#3D2E73", "#130F28", "#1B1537", "#231B47",
                "#CFFBFF", "#F4F6FF", "#B5B9E0", "#28F0E2", "#FF4FD8", "#2E2A60",
                "#37346B", "#55F08A", "#FFD65A", "#FF6B9A">>,
     paper |-> <<"#FFFDF8", "#F4EFE2", "#D8CCB1", "#FFF9EE", "#F2EBDC", "#EADFC8",
                 "#5A4631", "#2F2518", "#6F5D49", "#8B5E34", "#B08952", "#D8C3A3",
                 "#D9CFBC", "#2E7D32", "#B26A00", "#B64033">>,
     forest |-> <<"#0F2018", "#183129", "#2D5E4F", "#153027", "#11251D", "#1E4236",
                  "#CFEFDF", "#EDFDF4", "#A4C7B8", "#3ECF8E", "#80E3C1", "#255145",
                  "#2C5044", "#54D98C", "#E3B84F", "#F07F7F">>]

KeyIndex(key) == CHOOSE i \in 1..Len(GENERATOR_THEME_KEYS) : GENERATOR_THEME_KEYS[i] = key

\* t(lang, key) for the two messages the page shows.
InvalidGeneratorRepoUrl ==
    "Enter a valid GitHub URL, stats API URL, or Markdown embed like ![...](https://.../api?...)."
FailedToLoadJson == "Failed to load JSON"

\* ------------------------------------------------------------------------
\* The form (the DOM state the handlers read and write) as a record:
\*   owner .. includeReport   value / checked of the gen-* controls
\*   hide, fields             value of the hidden gen-hide / gen-fields inputs
\*   hideChecked, hideDisabled, fieldChecked, fieldDisabled
\*                            the checked / disabled checkboxes of the two lists
\*   disabled                 ids of the other controls that are disabled
\*   colors                   value of each gen-color-<key> input
\*   preset                   value of the gen-theme-preset select
\* ------------------------------------------------------------------------

\* Values of the checked options of a list, in document order, joined by ",".
JoinChecked(options, chosen) ==
    Join([i \in 1..Len(SelectSeq(options, LAMBDA o : o.value \in chosen)) |->
            SelectSeq(options, LAMBDA o : o.value \in chosen)[i].value], ",")

selectedGeneratorHideFlags(f) == f.hideChecked \ f.hideDisabled

syncGeneratorHideField(f) ==
    [f EXCEPT !.hide = JoinChecked(HideOptions, selectedGeneratorHideFlags(f))]

\* A sync that disables the unsupported options but leaves them checked (what
\* C3 excludes).
syncGeneratorHideOptionsByKindKeepChecked(f) ==
    syncGeneratorHideField(
        [f EXCEPT !.hideDisabled =
            HideValues \ (IF f.format = "svg" THEN HideAllowed(f.kind) ELSE {})])

syncGeneratorHideOptionsByKind(f) ==
    LET isSvg == f.format = "svg"
        supported == IF isSvg THEN HideAllowed(f.kind) ELSE {}
    IN  syncGeneratorHideField(
            [f EXCEPT !.hideDisabled = HideValues \ supported,
                      !.hideChecked = f.hideChecked \cap supported])

syncGeneratorControlVisibility(f) ==
    LET isSvg == f.format = "svg"
        isJson == ~isSvg
        isRepo == f.kind = "repo"
        isQualityJson == ~isSvg /\ f.kind = "quality"
        others == f.disabled \ (GENERATOR_SVG_ONLY_IDS
                                \cup {"gen-theme-random", "gen-include-report",
                                      "gen-langs", "gen-fields"})
    IN  [f EXCEPT !.disabled =
            others
            \cup (IF ~isSvg THEN GENERATOR_SVG_ONLY_IDS \cup {"gen-theme-random"} ELSE {})
            \cup (IF ~isQualityJson THEN {"gen-include-report"} ELSE {})
            \cup (IF ~isRepo THEN {"gen-langs"} ELSE {})
            \cup (IF ~isJson THEN {"gen-fields"} ELSE {})]

selectedGeneratorFieldFlags(f) == f.fieldChecked \ f.fieldDisabled

\* A sync without the sentinel: an empty selection leaves the hidden field
\* empty, as a full selection does (what C11 excludes).
syncGeneratorFieldsFieldNoSentinel(f) ==
    [f EXCEPT !.fields =
        IF Cardinality(selectedGeneratorFieldFlags(f)) >= Len(JsonFields(f.kind))
           \/ selectedGeneratorFieldFlags(f) = {}
        THEN ""
        ELSE JoinChecked(FieldOptions, selectedGeneratorFieldFlags(f))]

syncGeneratorFieldsField(f) ==
    LET total == IF f.kind = "quality" THEN Len(JsonFields("quality"))
                 ELSE Len(JsonFields("repo"))
        selected == selectedGeneratorFieldFlags(f)
    IN  [f EXCEPT !.fields =
            IF selected = {} THEN "__none__"
            ELSE IF Cardinality(selected) >= total THEN ""
            ELSE JoinChecked(FieldOptions, selected)]

syncGeneratorFieldOptionsByKind(f) ==
    LET isJson == f.format = "json"
        supported == IF isJson THEN FieldAllowed(f.kind) ELSE {}
    IN  syncGeneratorFieldsField([f EXCEPT !.fieldDisabled = FieldValues \ supported])

ColorIds == {"gen-color-" \o key : key \in ThemeKeys}

\* A palette sync that looks at the theme only and not at the format (what
\* C16 excludes).
syncGeneratorCustomThemeVisibilityAnyFormat(f) ==
    [f EXCEPT !.disabled =
        (f.disabled \ (ColorIds \cup PaletteControlIds))
        \cup (IF f.theme # "custom" THEN ColorIds \cup PaletteControlIds ELSE {})]

syncGeneratorCustomThemeVisibility(f) ==
    LET show == f.theme = "custom" /\ f.format = "svg"
        others == f.disabled \ (ColorIds \cup PaletteControlIds)
    IN  [f EXCEPT !.disabled =
            others \cup (IF ~show THEN ColorIds \cup PaletteControlIds ELSE {})]

\* The three or four calls the kind, format and theme change handlers make.
SyncAfterKindChange(f) ==
    syncGeneratorFieldOptionsByKind(
        syncGeneratorHideOptionsByKind(syncGeneratorControlVisibility(f)))

SyncAfterFormatChange(f) == syncGeneratorCustomThemeVisibility(SyncAfterKindChange(f))

\* The split(",") / trim / toLowerCase / filter(Boolean) set of tokens.
Tokens(rawValue) ==
    {ToLower(Trim(item)) : item \in Range(Split(rawValue, ","))} \ {""}

setGeneratorHideSelection(f, checked) ==
    syncGeneratorHideField(
        [f EXCEPT !.hideChecked =
            IF checked THEN f.hideChecked \cup (HideValues \ f.hideDisabled)
            ELSE f.hideChecked \cap f.hideDisabled])

applyGeneratorHideFlags(f, rawValue) ==
    LET tokens == Tokens(rawValue)
    IN  syncGeneratorHideField(
            [f EXCEPT !.hideChecked =
                {v \in HideValues \ f.hideDisabled : ToLower(Trim(v)) \in tokens}])

setGeneratorFieldSelection(f, checked) ==
    syncGeneratorFieldsField(
        [f EXCEPT !.fieldChecked =
            IF checked THEN f.fieldChecked \cup (FieldValues \ f.fieldDisabled)
            ELSE f.fieldChecked \cap f.fieldDisabled])

applyGeneratorFieldFlags(f, rawValue) ==
    LET tokens == Tokens(rawValue)
        explicitNone == "__none__" \in tokens \/ "none" \in tokens
        hasExplicitSelection == tokens # {}
        enabled == FieldValues \ f.fieldDisabled
    IN  syncGeneratorFieldsField(
            [f EXCEPT !.fieldChecked =
                (f.fieldChecked \cap f.fieldDisabled)
                \cup (IF ~hasExplicitSelection THEN enabled
                      ELSE {v \in enabled : ~explicitNone /\ ToLower(Trim(v)) \in tokens})])

\* applyGeneratorPalette(palette): palette maps each key to a colour or null.
applyGeneratorPalette(f, palette) ==
    [f EXCEPT !.colors =
        [key \in ThemeKeys |->
            LET value == normalizeHexColor(IF IsSome(palette[key]) THEN Val(palette[key]) ELSE "")
            IN  IF IsSome(value) THEN Val(value) ELSE f.colors[key]]]

\* generatorPaletteFromInputs / generatorCustomThemeParams: key -> colour or
\* absent.
generatorPaletteFromInputs(f) == [key \in ThemeKeys |-> normalizeHexColor(f.colors[key])]
generatorCustomThemeParams(f) == generatorPaletteFromInputs(f)

\* Number.prototype.toString(16): lower-case hexadecimal digits.
RECURSIVE ToString16(_)
ToString16(n) ==
    IF n < 16 THEN ToLower(Ch(HexDigits, n + 1))
    ELSE ToString16(n \div 16) \o ToLower(Ch(HexDigits, (n % 16) + 1))

\* String.prototype.padStart(6, "0")
PadStart6(s) == SubSeq("000000", 1, 6 - Min(6, Len(s))) \o s

\* randomHexColor, value being Math.floor(Math.random() * 0xffffff).
randomHexColor(value) == "#" \o ToUpper(PadStart6(ToString16(value)))

\* randomGeneratorPalette, given the value drawn for each key.
randomGeneratorPalette(values) == [key \in ThemeKeys |-> Some(randomHexColor(values[key]))]

\* GENERATOR_THEME_PRESETS[id] as a palette object.
PresetPalette(id) ==
    [key \in ThemeKeys |-> Some(GENERATOR_THEME_PRESETS[id][KeyIndex(key)])]

selectedGeneratorPresetId(f) ==
    IF ToLower(Trim(f.preset)) \in DOMAIN GENERATOR_THEME_PRESETS
    THEN ToLower(Trim(f.preset)) ELSE "ocean"

applyGeneratorPresetPalette(f) ==
    applyGeneratorPalette(f, PresetPalette(selectedGeneratorPresetId(f)))

\* A capture that overwrites what was captured before (what C14 excludes).
captureGeneratorDefaultPaletteAgain(captured, f) ==
    Some(generatorPaletteFromInputs(f))

\* captureGeneratorDefaultPalette: the new value of generatorDefaultPalette.
captureGeneratorDefaultPalette(captured, f) ==
    IF IsSome(captured) THEN captured ELSE Some(generatorPaletteFromInputs(f))

\* resetGeneratorPalette after its capture call; an object is truthy even when
\* it has no keys, so the ocean preset is used only for a null.
resetGeneratorPalette(captured, f) ==
    applyGeneratorPalette(f, IF IsSome(captured) THEN Val(captured)
                             ELSE PresetPalette("ocean"))

randomizeGeneratorPalette(f, values) ==
    applyGeneratorPalette(f, randomGeneratorPalette(values))

\* pickRandomGeneratorTheme, next being the option Math.random picks.
pickRandomGeneratorTheme(f, next) == [f EXCEPT !.theme = next]

applyGeneratorImportToForm(f, parsed) ==
    LET Opt(o, default) == IF IsSome(o) THEN Val(o) ELSE default
        Truthy(o) == IsSome(o) /\ Len(Val(o)) > 0
        f1 == [f EXCEPT
                 !.owner = IF Len(parsed.owner) > 0 THEN parsed.owner ELSE @,
                 !.repo = IF Len(parsed.repo) > 0 THEN parsed.repo ELSE @,
                 !.kind = IF Truthy(parsed.kind)
                          THEN (IF Val(parsed.kind) = "quality" THEN "quality" ELSE "repo")
                          ELSE @,
                 !.format = IF Truthy(parsed.format)
                            THEN (IF Val(parsed.format) = "json" THEN "json" ELSE "svg")
                            ELSE @]
        f2 == SyncAfterKindChange(f1)
        theme == ToLower(Trim(Opt(parsed.theme, "")))
        locale == ToLower(Trim(Opt(parsed.locale, "")))
        mode == ToLower(Trim(Opt(parsed.animation, "")))
        f3 == [f2 EXCEPT
                 !.theme = IF Truthy(parsed.theme) /\ theme \in ThemeOptions THEN theme ELSE @,
                 !.locale = IF Truthy(parsed.locale) /\ locale \in {"en", "ru"} THEN locale ELSE @,
                 !.title = Opt(parsed.title, ""),
                 !.width = IF IsSome(parsed.width)
                           THEN NumToStr(clampNumber(Val(parsed.width), 640, 1400, 760)) ELSE @,
                 !.langs = IF IsSome(parsed.langs)
                           THEN NumToStr(clampNumber(Val(parsed.langs), 1, 30, 4)) ELSE @,
                 !.animate = IF IsSome(parsed.animate)
                             THEN parseBooleanValue(parsed.animate, TRUE) ELSE @,
                 !.animation = IF Truthy(parsed.animation) /\ mode \in AnimationModes
                               THEN mode ELSE @,
                 !.duration = IF IsSome(parsed.duration)
                              THEN NumToStr(clampNumber(Val(parsed.duration), 350, 7000, 1400))
                              ELSE @,
                 !.cacheSeconds = IF IsSome(parsed.cacheSeconds)
                                  THEN NumToStr(clampNumber(Val(parsed.cacheSeconds), 0, 86400, 21600))
                                  ELSE @,
                 !.includeReport = parseBooleanValue(parsed.includeReport, FALSE)]
        f4 == applyGeneratorHideFlags(f3, Opt(parsed.hide, ""))
        f5 == applyGeneratorFieldFlags(f4, Opt(parsed.fields, ""))
        f6 == applyGeneratorPalette(f5, parsed.colors)
    IN  syncGeneratorCustomThemeVisibility(f6)

\* ------------------------------------------------------------------------
\* Export codec
\* ------------------------------------------------------------------------

\* Number(node.value || fallback)
NumberField(value, fallback) == IF Len(value) = 0 THEN Num(fallback) ELSE NumberOf(value)

\* A clamp without its lower bound (what C8 excludes).
ClampTextNoFloor(lo, hi, x) == NumToStr(MathMin(Num(hi), x))

\* String(Math.max(lo, Math.min(hi, x)))
ClampText(lo, hi, x) == NumToStr(MathMax(Num(lo), MathMin(Num(hi), x)))

\* URLSearchParams.toString() of the pairs set, in insertion order.
ParamsToString(pairs) ==
    Join([i \in 1..Len(pairs) |-> FormEncode(pairs[i][1]) \o "=" \o FormEncode(pairs[i][2])], "&")

\* The pairs buildGeneratorPath sets, in the order it sets them: the branch of
\* format = svg, ...
SvgParams(f) ==
    LET title == Trim(f.title)
        hide == Trim(f.hide)
        width == NumberField(f.width, 760)
        langs == NumberField(f.langs, 4)
        duration == NumberField(f.duration, 1400)
        cacheSeconds == NumberField(f.cacheSeconds, 21600)
        custom == generatorCustomThemeParams(f)
        customKeys == SelectSeq(GENERATOR_THEME_KEYS, LAMBDA key : IsSome(custom[key]))
    IN  <<<<"theme", f.theme>>, <<"locale", f.locale>>,
          <<"card_width", ClampText(640, 1400, width)>>>>
        \o (IF Len(title) > 0 THEN <<<<"title", title>>>> ELSE <<>>)
        \o (IF Len(hide) > 0 THEN <<<<"hide", hide>>>> ELSE <<>>)
        \o <<<<"animate", IF f.animate THEN "true" ELSE "false">>,
             <<"animation", f.animation>>,
             <<"duration", ClampText(350, 7000, duration)>>,
             <<"cache_seconds", ClampText(0, 86400, cacheSeconds)>>>>
        \o (IF f.kind = "repo" THEN <<<<"langs_count", ClampText(1, 10, langs)>>>> ELSE <<>>)
        \o (IF f.theme = "custom"
            THEN [i \in 1..Len(customKeys) |-> <<customKeys[i], Val(custom[customKeys[i]])>>]
            ELSE <<>>)

\* A JSON branch that also carries the title (what C2 excludes).
JsonRepoParamsWithTitle(f) ==
    <<<<"langs_count", ClampText(1, 30, NumberField(f.langs, 4))>>>>
    \o (IF Len(Trim(f.title)) > 0 THEN <<<<"title", Trim(f.title)>>>> ELSE <<>>)
    \o (IF Len(Trim(f.fields)) > 0 THEN <<<<"fields", Trim(f.fields)>>>> ELSE <<>>)

\* ... the branch of format = json, kind = repo, ...
JsonRepoParams(f) ==
    LET langs == NumberField(f.langs, 4)
        fields == Trim(f.fields)
    IN  <<<<"langs_count", ClampText(1, 30, langs)>>>>
        \o (IF Len(fields) > 0 THEN <<<<"fields", fields>>>> ELSE <<>>)

\* ... and the branch of format = json, kind = quality.
JsonQualityParams(f) ==
    LET fields == Trim(f.fields)
    IN  <<<<"locale", f.locale>>>>
        \o (IF f.includeReport THEN <<<<"include_report", "true">>>> ELSE <<>>)
        \o (IF Len(fields) > 0 THEN <<<<"fields", fields>>>> ELSE <<>>)

GeneratorParams(f) ==
    IF f.format = "svg" THEN SvgParams(f)
    ELSE IF f.kind = "repo" THEN JsonRepoParams(f)
    ELSE JsonQualityParams(f)

\* A path built from the raw owner and repo, without encodeURIComponent (what
\* C17 excludes).
buildGeneratorPathRaw(f) ==
    LET owner == Trim(f.owner)
        repo == Trim(f.repo)
        path == "/api/stats/" \o f.kind \o "/" \o owner \o "/" \o repo \o "." \o f.format
        qs == ParamsToString(GeneratorParams(f))
    IN  IF Len(owner) = 0 \/ Len(repo) = 0 THEN ""
        ELSE IF Len(qs) > 0 THEN path \o "?" \o qs
        ELSE path

buildGeneratorPath(f) ==
    LET owner == Trim(f.owner)
        repo == Trim(f.repo)
        path == "/api/stats/" \o f.kind \o "/" \o encodeURIComponent(owner) \o "/"
                \o encodeURIComponent(repo) \o "." \o f.format
        qs == ParamsToString(GeneratorParams(f))
    IN  IF Len(owner) = 0 \/ Len(repo) = 0 THEN ""
        ELSE IF Len(qs) > 0 THEN path \o "?" \o qs
        ELSE path

\* ------------------------------------------------------------------------
\* State
\* ------------------------------------------------------------------------

VARIABLES
    form,                     \* the controls of the page (see above)
    importInput,              \* value of gen-repo-url
    importError,              \* text of gen-import-error
    timer,                    \* the debounce timer of delayedPreview is pending
    preview,                  \* gen-url, gen-md, image src, gen-preview-json
    inflight,                 \* URLs of the JSON preview reads not yet resolved
    generatorDefaultPalette,  \* null (<<>>) or the captured palette (<<p>>)
    uncaught,                 \* an exception escaped an event handler
    clock,                    \* the timeouts set and not yet run, and the time since the last edit
    staticPage,               \* the static generator page: import box, owner, repo, kind, format, theme,
                              \* hide options, generated URL, Markdown, image, and the URLs the last event wrote
    trend,                    \* the report page: trend chart, fallback, line style, frames requested
    dial,                     \* the report page: the score dial and its animation
    progress,                 \* the progress page: its poll timer, reads in flight, texts, navigations
    scan,                     \* the index page, in two runs that differ in the token typed
    copy                      \* the copy buttons: label and label timers of each

vars == <<form, importInput, importError, timer, preview, inflight,
          generatorDefaultPalette, uncaught, clock, staticPage, trend, dial, progress, scan, copy>>

\* The controls as the page template renders them, before initGeneratorPage.
\* The numeric and choice defaults are the fallbacks buildGeneratorPath and
\* applyGeneratorImportToForm use for a missing value.
TemplateForm ==
    [owner |-> "", repo |-> "", kind |-> "repo", format |-> "svg", theme |-> "ocean",
     locale |-> "en", title |-> "", width |-> "760", langs |-> "4", animate |-> TRUE,
     animation |-> "all", duration |-> "1400", cacheSeconds |-> "21600",
     includeReport |-> FALSE, hide |-> "", fields |-> "",
     hideChecked |-> {}, hideDisabled |-> {},
     fieldChecked |-> FieldValues, fieldDisabled |-> {},
     disabled |-> {},
     colors |-> [key \in ThemeKeys |-> GENERATOR_THEME_PRESETS["ocean"][KeyIndex(key)]],
     preset |-> "ocean"]

\* What the preview shows.  json is the text of gen-preview-json: "" (empty),
\* a document (that of the request URL doc), or a message.
NoJson == [k |-> "empty", v |-> ""]
JsonDocument(url) == [k |-> "document", v |-> url]
JsonMessage(text) == [k |-> "message", v |-> text]

\* The synchronous part of refreshGeneratorPreview: the preview it leaves and
\* the read it starts (<<>> or <<url>>).
\* A JSON branch that leaves the Markdown embed and its copy button as they
\* were (what C29 excludes).
ShowPreviewKeepMd(f, old, absolute) ==
    IF f.format = "svg"
    THEN [preview |-> [url |-> absolute,
                       md |-> "![Repo Inspector Card](" \o absolute \o ")",
                       imageSrc |-> absolute, json |-> old.json, jsonHidden |-> TRUE,
                       openDisabled |-> FALSE, copyUrlDisabled |-> FALSE,
                       copyMdDisabled |-> FALSE],
          fetch |-> <<>>]
    ELSE [preview |-> [url |-> absolute, md |-> old.md, imageSrc |-> old.imageSrc,
                       json |-> old.json, jsonHidden |-> FALSE,
                       openDisabled |-> FALSE, copyUrlDisabled |-> FALSE,
                       copyMdDisabled |-> old.copyMdDisabled],
          fetch |-> <<absolute>>]

ShowPreview(f, old, absolute) ==
    IF f.format = "svg"
    THEN [preview |-> [url |-> absolute,
                       md |-> "![Repo Inspector Card](" \o absolute \o ")",
                       imageSrc |-> absolute, json |-> old.json, jsonHidden |-> TRUE,
                       openDisabled |-> FALSE, copyUrlDisabled |-> FALSE,
                       copyMdDisabled |-> FALSE],
          fetch |-> <<>>]
    ELSE [preview |-> [url |-> absolute, md |-> "", imageSrc |-> old.imageSrc,
                       json |-> old.json, jsonHidden |-> FALSE,
                       openDisabled |-> FALSE, copyUrlDisabled |-> FALSE,
                       copyMdDisabled |-> TRUE],
          fetch |-> <<absolute>>]

PreviewOfPath(f, old, path) ==
    IF Len(path) = 0
    THEN [preview |-> [url |-> "", md |-> "", imageSrc |-> "", json |-> NoJson,
                       jsonHidden |-> TRUE,
                       openDisabled |-> TRUE, copyUrlDisabled |-> TRUE,
                       copyMdDisabled |-> TRUE],
          fetch |-> <<>>]
    ELSE ShowPreview(f, old, Origin \o path)

RefreshPreview(f, old) ==
    PreviewOfPath(f, old, buildGeneratorPath(f))

\* The tail of initGeneratorPage.
InitForm ==
    syncGeneratorFieldsField(syncGeneratorHideField(SyncAfterFormatChange(TemplateForm)))

\* The static page before any import: empty import box, the template's
\* kind and format.
StaticInit ==
    [repoUrl |-> "", importError |-> "", owner |-> "", repo |-> "",
     kind |-> "repo", format |-> "svg", theme |-> "ocean",
     hideChecked |-> {}, hideDisabled |-> HideValues \ HideAllowed("repo"), hide |-> "",
     url |-> "", md |-> "", imageSrc |-> "", event |-> "load", written |-> <<"">>]

\* The report page before renderTrendChart: the fallback as the template
\* renders it (hidden), an empty chart container, no frame requested.
TrendInit ==
    [reducedMotion |-> FALSE, fallbackHidden |-> TRUE, chart |-> <<>>, frames |-> <<>>]

\* The score dial before animateScoreDial: nothing written yet, no frame
\* requested.  elapsed counts the time since performance.now() of the start,
\* in steps of durationMs / DialSteps.
DialInit ==
    [phase |-> "idle", target |-> 0, elapsed |-> 0, pending |-> FALSE,
     score |-> "", number |-> ""]

\* The progress page after initProgressPage: the interval timer set, no read
\* in flight, the texts as rendered (empty), no navigation.
ProgressInit ==
    [timer |-> TRUE, inflight |-> 0, status |-> "", width |-> "", text |-> "",
     error |-> "", navigations |-> <<>>]

\* The index page of each of the two runs: nothing typed, no request sent,
\* the token panel hidden, no navigation.
Runs == {1, 2}
ScanPageInit ==
    [repoUrl |-> "", token |-> "", error |-> "", tokenPanelHidden |-> TRUE,
     pending |-> <<>>, requests |-> <<>>, navigations |-> <<>>, polls |-> <<>>]
ScanInit == [r \in Runs |-> ScanPageInit]

\* The copy buttons: gen-copy-url of the static generator and an .api-copy
\* of the report page, each with its label, the clipboard writes not yet
\* settled and the label timers not yet run (the label each restores).
CopyButtons == {"gen-copy-url", "api-copy"}
CopyLabel(b) == IF b = "gen-copy-url" THEN "Copy URL" ELSE "Copy"
CopyInit ==
    [b \in CopyButtons |->
        [label |-> CopyLabel(b), writes |-> 0, timers |-> <<>>]]

Init ==
    /\ form = InitForm
    /\ importInput = ""
    /\ importError = ""
    /\ timer = FALSE
    /\ clock = [pending |-> <<>>, sinceEdit |-> 0]
    /\ preview = RefreshPreview(InitForm,
                                [url |-> "", md |-> "", imageSrc |-> "", json |-> NoJson,
                                 jsonHidden |-> TRUE, openDisabled |-> TRUE,
                                 copyUrlDisabled |-> TRUE, copyMdDisabled |-> TRUE]).preview
    /\ inflight = <<>>
    /\ generatorDefaultPalette = captureGeneratorDefaultPalette(None, TemplateForm)
    /\ uncaught = FALSE
    /\ staticPage = StaticInit
    /\ trend = TrendInit
    /\ dial = DialInit
    /\ progress = ProgressInit
    /\ scan = ScanInit
    /\ copy = CopyInit

\* ------------------------------------------------------------------------
\* Event handlers
\* ------------------------------------------------------------------------

\* delayedPreview(): the pending timer, if any, is cleared and a new one set.
\* The delay of the debounce, in milliseconds.
DebounceMs == 180

\* clock.pending holds, for each timeout set by debounce and not yet run or
\* cleared, the milliseconds since it was set; clock.sinceEdit the
\* milliseconds since the last call of delayedPreview.

\* A debounce that sets a new timeout without clearing the pending one (what
\* C12 excludes).
delayedPreviewNoClear ==
    /\ timer' = TRUE
    /\ clock' = [pending |-> Append(clock.pending, 0), sinceEdit |-> 0]

\* delayedPreview: clearTimeout of the pending timeout, then setTimeout.
delayedPreview ==
    /\ timer' = TRUE
    /\ clock' = [pending |-> <<0>>, sinceEdit |-> 0]

Rest == UNCHANGED <<importInput, importError, preview, inflight, generatorDefaultPalette, uncaught, staticPage, trend, dial, progress, scan, copy>>

\* The user edits an enabled control: input/change -> delayedPreview.
Edit(id, next) ==
    /\ id \notin form.disabled
    /\ next # form
    /\ form' = next
    /\ delayedPreview
    /\ Rest

\* The text and choice controls; v is what the user enters.
SetOwner(v) == Edit("gen-owner", [form EXCEPT !.owner = v])
SetRepo(v) == Edit("gen-repo", [form EXCEPT !.repo = v])
SetLocale(v) == Edit("gen-locale", [form EXCEPT !.locale = v])
SetTitle(v) == Edit("gen-title", [form EXCEPT !.title = v])
SetWidth(v) == Edit("gen-width", [form EXCEPT !.width = v])
SetLangs(v) == Edit("gen-langs", [form EXCEPT !.langs = v])
SetDuration(v) == Edit("gen-duration", [form EXCEPT !.duration = v])
SetCacheSeconds(v) == Edit("gen-cache-seconds", [form EXCEPT !.cacheSeconds = v])
SetIncludeReport == Edit("gen-include-report", [form EXCEPT !.includeReport = ~@])

\* change on gen-kind, gen-format, gen-theme: delayedPreview, then the syncs.
SetAnimation(v) == Edit("gen-animation", [form EXCEPT !.animation = v])
SetKind(v) == Edit("gen-kind", SyncAfterKindChange([form EXCEPT !.kind = v]))

SetFormat(v) == Edit("gen-format", SyncAfterFormatChange([form EXCEPT !.format = v]))

SetTheme(v) == Edit("gen-theme", SyncAfterFormatChange([form EXCEPT !.theme = v]))

\* change on an enabled .gen-hide-option / .gen-field-option checkbox.
ToggleHide(v) ==
    /\ v \in HideValues \ form.hideDisabled
    /\ form' = syncGeneratorHideField(
                   [form EXCEPT !.hideChecked = IF v \in @ THEN @ \ {v} ELSE @ \cup {v}])
    /\ delayedPreview
    /\ Rest

ToggleField(v) ==
    /\ v \in FieldValues \ form.fieldDisabled
    /\ form' = syncGeneratorFieldsField(
                   [form EXCEPT !.fieldChecked = IF v \in @ THEN @ \ {v} ELSE @ \cup {v}])
    /\ delayedPreview
    /\ Rest

\* click on gen-hide-select-all / gen-hide-clear / gen-fields-select-all /
\* gen-fields-clear.
HideSelectAll == form' = setGeneratorHideSelection(form, TRUE) /\ delayedPreview /\ Rest
HideClear == form' = setGeneratorHideSelection(form, FALSE) /\ delayedPreview /\ Rest
FieldSelectAll == form' = setGeneratorFieldSelection(form, TRUE) /\ delayedPreview /\ Rest
FieldClear == form' = setGeneratorFieldSelection(form, FALSE) /\ delayedPreview /\ Rest

\* input on an enabled gen-color-<key>.
SetColor(key, v) == Edit("gen-color-" \o key, [form EXCEPT !.colors[key] = v])

\* change on gen-theme-preset.
SetPreset(v) == Edit("gen-theme-preset", [form EXCEPT !.preset = v])

\* click on gen-apply-preset (a disabled button gets no click).
ApplyPreset ==
    /\ "gen-apply-preset" \notin form.disabled
    /\ form' = applyGeneratorPresetPalette(form)
    /\ delayedPreview
    /\ Rest

\* The values Math.random may give for a colour, and the palettes drawn: one
\* value for the keys at odd positions, one for those at even positions.
RandomValues == {0, 703710, 16777214}
RandomDraws ==
    {[key \in ThemeKeys |-> IF KeyIndex(key) % 2 = 1 THEN a ELSE b] :
        a \in RandomValues, b \in RandomValues}

\* click on gen-randomize-palette.
RandomizePalette(values) ==
    /\ "gen-randomize-palette" \notin form.disabled
    /\ form' = randomizeGeneratorPalette(form, values)
    /\ delayedPreview
    /\ Rest

\* click on gen-reset-palette.
ResetPalette ==
    /\ "gen-reset-palette" \notin form.disabled
    /\ generatorDefaultPalette' = captureGeneratorDefaultPalette(generatorDefaultPalette, form)
    /\ form' = resetGeneratorPalette(generatorDefaultPalette', form)
    /\ delayedPreview
    /\ UNCHANGED <<importInput, importError, preview, inflight, uncaught, staticPage, trend, dial, progress, scan, copy>>

\* click on gen-theme-random.
PickRandomTheme(next) ==
    /\ "gen-theme-random" \notin form.disabled
    /\ next \in ThemeOptions \ {"custom"}
    /\ form' = syncGeneratorCustomThemeVisibility(pickRandomGeneratorTheme(form, next))
    /\ delayedPreview
    /\ Rest

\* The texts the specifications type into gen-repo-url.
FormImportTexts ==
    {"acme/widgets",
     "/api?owner=acme&repo=widgets&kind=quality&format=json&include_report=1&fields=job_id",
     "https://ri.test/api/stats/repo/acme/widgets.svg?theme=nord&title=T&hide=stars,ring",
     "not a reference"}

ImportTexts ==
    {"acme/widgets",
     "<acme/widgets.git>",
     "https://github.com/acme/widgets.git",
     "https://github.com/acme",
     "/api?owner=acme&repo=widgets&kind=quality&format=json",
     "![card](https://ri.test/api/stats/repo/acme/widgets.svg?theme=nord&card_width=9000)",
     "/api/stats/quality/acme/widgets.json?include_report=true&fields=job_id",
     "/api/stats/repo/acme/my.repo.svg",
     "/api/stats/repo/%zz/x.svg",
     "https://github.com/api/stats/repo/a/%2Egit.svg",
     "x/y?owner=a&repo=.git",
     "http://",
     "not a reference"}

\* Import texts about the fields parameter.
FieldImportTexts ==
    {"/api/stats/repo/acme/widgets.json",
     "/api/stats/repo/acme/widgets.json?fields=__none__",
     "/api/stats/quality/acme/widgets.json?fields=none",
     "/api/stats/repo/acme/widgets.json?fields=owner,full_name",
     "/api/stats/quality/acme/widgets.json?fields=JOB_ID,bogus"}

\* Import texts with palette parameters, well-formed and malformed.
PaletteImportTexts ==
    {"/api/stats/repo/acme/widgets.svg?theme=custom&accent=%23abc&bg_start=zzz&text=%23GGGGGG&border=%2312345&panel=%23a1b2c3",
     "/api?owner=acme&repo=widgets&accent=fff&fail=%23FFF"}

\* GitHub repository URLs: either scheme, with and without .git, followed by
\* nothing, a slash, a path, a query, a fragment, or all three.
GitHubTrailers == {"", "/", "/tree/main", "?tab=readme", "#readme", "/issues?q=bug#top"}

GitHubTexts ==
    {base \o trailer : base \in {"https://github.com/acme/widgets",
                                 "http://github.com/acme/widgets.git"},
                       trailer \in GitHubTrailers}

\* What the static page's import box is given: the GitHub URLs, a shorthand,
\* a card URL, a card URL whose owner does not decode, and a text of no shape.
StaticImportTexts ==
    GitHubTexts \cup {"acme/widgets.git", "/api/stats/quality/acme/widgets.json",
                      "/api/stats/repo/%zz/x.svg", "not a reference"}

\* parseImportValue of each of these texts, computed once.
StaticParseTable ==
    [text \in StaticImportTexts \cup {""} |-> parseImportValue(text)]

StaticParseOf(text) ==
    StaticParseTable[text]

\* Request-shaped references without a kind and a format, with values no
\* control offers, and with values the controls offer in another case.
MissingChoicesText == "/api?owner=acme&repo=widgets"
UnknownChoicesText ==
    "/api?owner=acme&repo=widgets&kind=banana&format=xml&theme=neonpink&locale=de&animation=spin"
KnownChoicesText ==
    "/api?owner=acme&repo=widgets&kind=QUALITY&format=Json&theme=NORD&locale=RU&animation=Bars"

\* Request-shaped references that give each numeric control the same value.
ClampValues == {"abc", "-5", "", "0", "20", "700", "99999", "Infinity"}
ClampImportText(v) ==
    "/api?owner=acme&repo=widgets&card_width=" \o v \o "&langs_count=" \o v
    \o "&duration=" \o v \o "&cache_seconds=" \o v
ClampImportTexts == {ClampImportText(v) : v \in ClampValues}

ChoiceImportTexts == {MissingChoicesText, UnknownChoicesText, KnownChoicesText}

\* parseGeneratorImport of each of these texts, computed once.
ParseTable ==
    [text \in FormImportTexts \cup ImportTexts \cup FieldImportTexts
               \cup PaletteImportTexts \cup GitHubTexts \cup ChoiceImportTexts
               \cup ClampImportTexts \cup {""} |->
        parseGeneratorImport(text)]

ParseOf(text) ==
    ParseTable[text]

\* input on gen-repo-url.
TypeImport(text) ==
    /\ text # importInput
    /\ importInput' = text
    /\ importError' = ""
    /\ UNCHANGED <<form, timer, clock, preview, inflight, generatorDefaultPalette, uncaught, staticPage, trend, dial, progress, scan, copy>>

\* applyRepoImport when the parse throws: the exception leaves the handler at
\* once.
ImportThrown ==
    /\ uncaught' = TRUE
    /\ UNCHANGED <<form, importInput, importError, timer, clock, preview, inflight,
                   generatorDefaultPalette, staticPage, trend, dial, progress, scan, copy>>

\* A failure branch that also schedules a refresh (what C4 excludes).
ImportRejectedWithRefresh ==
    /\ importError' = InvalidGeneratorRepoUrl
    /\ delayedPreview
    /\ UNCHANGED <<form, importInput, preview, inflight, generatorDefaultPalette, uncaught, staticPage, trend, dial, progress, scan, copy>>

\* applyRepoImport when the parse returns null.
ImportRejected ==
    /\ importError' = InvalidGeneratorRepoUrl
    /\ UNCHANGED <<form, importInput, timer, clock, preview, inflight, generatorDefaultPalette,
                   uncaught, staticPage, trend, dial, progress, scan, copy>>

\* An import that selects the theme of the reference without looking it up
\* among the options (what C30 excludes).
ImportAppliedAnyTheme(parsed) ==
    /\ form' = [applyGeneratorImportToForm(form, parsed) EXCEPT
                  !.theme = IF IsSome(parsed.theme) THEN ToLower(Trim(Val(parsed.theme))) ELSE @]
    /\ importError' = ""
    /\ delayedPreview
    /\ UNCHANGED <<importInput, preview, inflight, generatorDefaultPalette, uncaught, staticPage, trend, dial, progress, scan, copy>>

\* An import that keeps the title when the reference names none (what C28
\* excludes).
ImportAppliedKeepTitle(parsed) ==
    /\ form' = [applyGeneratorImportToForm(form, parsed) EXCEPT
                  !.title = IF IsSome(parsed.title) THEN Val(parsed.title) ELSE form.title]
    /\ importError' = ""
    /\ delayedPreview
    /\ UNCHANGED <<importInput, preview, inflight, generatorDefaultPalette, uncaught, staticPage, trend, dial, progress, scan, copy>>

\* applyRepoImport when the parse returns a result.
ImportApplied(parsed) ==
    LET applied == applyGeneratorImportToForm(form, parsed)
    IN  /\ form' = [applied EXCEPT
                      !.owner = IF Len(@) = 0 /\ Len(parsed.owner) > 0 THEN parsed.owner ELSE @,
                      !.repo = IF Len(@) = 0 /\ Len(parsed.repo) > 0 THEN parsed.repo ELSE @]
        /\ importError' = ""
        /\ delayedPreview
        /\ UNCHANGED <<importInput, preview, inflight, generatorDefaultPalette, uncaught, staticPage, trend, dial, progress, scan, copy>>

\* applyRepoImport: click on gen-import-repo, or Enter in gen-repo-url.
ImportOutcome(parsed) ==
    CASE parsed.tag = "throw" -> ImportThrown
      [] parsed.tag = "null" -> ImportRejected
      [] OTHER -> ImportApplied(parsed)

applyRepoImport ==
    ImportOutcome(ParseOf(importInput))

\* t("invalidRepoUrl") of the static page.
InvalidRepoUrl ==
    "Enter a valid GitHub URL, card API URL, or Markdown embed like ![...](https://.../api?...)."

\* input on the static page's import box.
StaticTypeImport(text) ==
    /\ text # staticPage.repoUrl
    /\ staticPage' = [staticPage EXCEPT !.repoUrl = text, !.importError = ""]
    /\ UNCHANGED <<form, importInput, importError, timer, clock, preview, inflight,
                   generatorDefaultPalette, uncaught, trend, dial, progress, scan, copy>>

\* The theme options the static page is given.
StaticThemes == {"ocean", "nord"}

\* API_BASE of the static page's configuration.
API_BASE == "https://api.example.com"

selectedHideFlags(p) == p.hideChecked \ p.hideDisabled

syncHideField(p) == [p EXCEPT !.hide = JoinChecked(HideOptions, selectedHideFlags(p))]

syncHideOptions(p) ==
    LET isSvg == p.format = "svg"
        supported == IF isSvg THEN HideAllowed(p.kind) ELSE {}
    IN  syncHideField([p EXCEPT !.hideDisabled = HideValues \ supported,
                                !.hideChecked = @ \cap supported])

applyHideFlags(p, rawValue) ==
    LET selected == Tokens(rawValue)
    IN  syncHideField(
            [p EXCEPT !.hideChecked =
                {v \in HideValues \ p.hideDisabled : ToLower(Trim(v)) \in selected}])

\* The pairs buildApiUrl sets, in the order it sets them.  The controls
\* outside the state (locale, width, animate, animation, duration, cache
\* seconds, langs, title, include report) have their template values.
ApiParams(p) ==
    LET t == TemplateForm
        hide == Trim(p.hide)
    IN  <<<<"owner", Trim(p.owner)>>, <<"repo", Trim(p.repo)>>,
          <<"kind", p.kind>>, <<"format", p.format>>>>
        \o (IF p.format = "svg"
            THEN <<<<"theme", p.theme>>, <<"locale", t.locale>>,
                   <<"card_width", ClampText(640, 1400, NumberField(t.width, 760))>>,
                   <<"animate", IF t.animate THEN "true" ELSE "false">>,
                   <<"animation", t.animation>>,
                   <<"duration", ClampText(350, 7000, NumberField(t.duration, 1400))>>,
                   <<"cache_seconds", ClampText(0, 86400, NumberField(t.cacheSeconds, 21600))>>>>
                 \o (IF p.kind = "repo"
                     THEN <<<<"langs_count", ClampText(1, 10, NumberField(t.langs, 4))>>>>
                     ELSE <<>>)
                 \o (IF Len(hide) > 0 THEN <<<<"hide", hide>>>> ELSE <<>>)
            ELSE IF p.kind = "repo"
            THEN <<<<"langs_count", ClampText(1, 30, NumberField(t.langs, 4))>>>>
            ELSE <<<<"locale", t.locale>>>>)

buildApiUrl(p) ==
    IF API_BASE = "" \/ Trim(p.owner) = "" \/ Trim(p.repo) = "" THEN ""
    ELSE API_BASE \o "/api?" \o ParamsToString(ApiParams(p))

\* refreshPreview up to its await, given the URL built: the URL written to
\* the generated-URL field, then the Markdown and the image by format.  (The
\* JSON read it starts and the text it shows are outside the state.)
PreviewWritten(p, url) ==
    IF url = ""
    THEN [p EXCEPT !.url = url, !.written = Append(@, url), !.md = "", !.imageSrc = ""]
    ELSE IF p.format = "svg"
    THEN [p EXCEPT !.url = url, !.written = Append(@, url),
                   !.md = "![Repo Inspector Card](" \o url \o ")", !.imageSrc = url]
    ELSE [p EXCEPT !.url = url, !.written = Append(@, url), !.md = ""]

refreshPreview(p) == PreviewWritten(p, buildApiUrl(p))

\* applyImportToForm, as far as owner, repo, kind, format, theme and the hide
\* options go (the other controls of the static page are outside the state).
applyImportToForm(p, parsed) ==
    LET set == [p EXCEPT
                  !.owner = IF Len(parsed.owner) > 0 THEN parsed.owner ELSE @,
                  !.repo = IF Len(parsed.repo) > 0 THEN parsed.repo ELSE @,
                  !.kind = IF IsSome(parsed.kind)
                           THEN (IF Val(parsed.kind) = "quality" THEN "quality" ELSE "repo")
                           ELSE @,
                  !.format = IF IsSome(parsed.format)
                             THEN (IF Val(parsed.format) = "json" THEN "json" ELSE "svg")
                             ELSE @]
        synced == syncHideOptions(set)
        theme == IF IsSome(parsed.theme) THEN ToLower(Trim(Val(parsed.theme))) ELSE ""
        themed == IF theme \in StaticThemes THEN [synced EXCEPT !.theme = theme] ELSE synced
    IN  applyHideFlags(themed, IF IsSome(parsed.hide) THEN Val(parsed.hide) ELSE "")

\* The import button's handler on a parsed object: applyImportToForm, the
\* error text cleared, refreshPreview.
StaticApplied(parsed) ==
    refreshPreview([applyImportToForm([staticPage EXCEPT !.event = "import", !.written = <<>>],
                                      parsed)
                      EXCEPT !.importError = ""])

\* click on the static page's import button: the parse may throw (the
\* exception leaves the handler), return null (the error text is shown) or
\* return an object (applied, the error text cleared).
StaticImportOutcome(parsed) ==
    /\ uncaught' = (uncaught \/ parsed.tag = "throw")
    /\ staticPage' = CASE parsed.tag = "throw" -> staticPage
                       [] parsed.tag = "null" ->
                            [staticPage EXCEPT !.importError = InvalidRepoUrl]
                       [] OTHER -> StaticApplied(parsed)
    /\ UNCHANGED <<form, importInput, importError, timer, clock, preview, inflight,
                   generatorDefaultPalette, trend, dial, progress, scan, copy>>

StaticImportClick ==
    StaticImportOutcome(StaticParseOf(staticPage.repoUrl))

\* How many JSON preview reads may be unresolved at once.
MaxInflight == 2

\* A refresh that abandons the reads still in flight (what C13 excludes).
TimerFireCancelling ==
    /\ timer
    /\ timer' = (Len(clock.pending) > 1)
    /\ clock' = [clock EXCEPT !.pending = IF @ = <<>> THEN @ ELSE Tail(@)]
    /\ preview' = RefreshPreview(form, preview).preview
    /\ inflight' = RefreshPreview(form, preview).fetch
    /\ UNCHANGED <<form, importInput, importError, generatorDefaultPalette, uncaught, staticPage, trend, dial, progress, scan, copy>>

\* The oldest timeout runs: refreshGeneratorPreview up to its await.
TimerFire ==
    LET result == RefreshPreview(form, preview)
    IN  /\ timer
        /\ Len(inflight) + Len(result.fetch) <= MaxInflight
        /\ timer' = (Len(clock.pending) > 1)
        /\ clock' = [clock EXCEPT !.pending = IF @ = <<>> THEN @ ELSE Tail(@)]
        /\ preview' = result.preview
        /\ inflight' = inflight \o result.fetch
        /\ UNCHANGED <<form, importInput, importError, generatorDefaultPalette, uncaught, staticPage, trend, dial, progress, scan, copy>>

\* One millisecond passes while a timeout is pending; a timeout runs when
\* its delay has elapsed, so time does not pass beyond it.
Tick ==
    /\ clock.pending # <<>>
    /\ \A i \in 1..Len(clock.pending) : clock.pending[i] < DebounceMs
    /\ clock' = [pending |-> [i \in 1..Len(clock.pending) |-> clock.pending[i] + 1],
                 sinceEdit |-> clock.sinceEdit + 1]
    /\ UNCHANGED <<form, importInput, importError, timer, preview, inflight,
                   generatorDefaultPalette, uncaught, staticPage, trend, dial, progress, scan, copy>>

\* The timeout set by debounce runs after its delay.
TimerExpire ==
    /\ clock.pending # <<>>
    /\ Head(clock.pending) >= DebounceMs
    /\ TimerFire

\* What a failed read rejects with: fetch rejects with a TypeError when the
\* network fails, response.json() with a SyntaxError when the body is not JSON.
FetchFailures ==
    {[kind |-> "network", isError |-> TRUE, message |-> "Failed to fetch"],
     [kind |-> "body", isError |-> TRUE,
      message |-> "Unexpected token < in JSON at position 0"]}

\* The catch clause of refreshGeneratorPreview.
CatchText(error) == IF error.isError THEN error.message ELSE FailedToLoadJson

\* A read resolves with a document: the rest of the try block.
FetchSucceed(i) ==
    /\ i \in 1..Len(inflight)
    /\ preview' = [preview EXCEPT !.json = JsonDocument(inflight[i])]
    /\ inflight' = SubSeq(inflight, 1, i - 1) \o SubSeq(inflight, i + 1, Len(inflight))
    /\ UNCHANGED <<form, importInput, importError, timer, clock, generatorDefaultPalette, uncaught, staticPage, trend, dial, progress, scan, copy>>

\* A read fails: the catch clause.
FetchFail(i, error) ==
    /\ i \in 1..Len(inflight)
    /\ preview' = [preview EXCEPT !.json = JsonMessage(CatchText(error))]
    /\ inflight' = SubSeq(inflight, 1, i - 1) \o SubSeq(inflight, i + 1, Len(inflight))
    /\ UNCHANGED <<form, importInput, importError, timer, clock, generatorDefaultPalette, uncaught, staticPage, trend, dial, progress, scan, copy>>

\* ------------------------------------------------------------------------
\* Specifications
\* ------------------------------------------------------------------------

Kinds == {"repo", "quality"}
Formats == {"svg", "json"}

\* The hide options under kind, format and theme changes, toggles, select
\* all, clear and imports.
Next ==
    \/ \E v \in Kinds : SetKind(v)
    \/ \E v \in Formats : SetFormat(v)
    \/ \E v \in ThemeOptions : SetTheme(v)
    \/ \E v \in HideValues : ToggleHide(v)
    \/ HideSelectAll
    \/ HideClear
    \/ \E text \in FormImportTexts : TypeImport(text)
    \/ applyRepoImport

Spec == Init /\ [][Next]_vars

\* The fields of the availability groups under kind, format and theme changes.
NextNeutral ==
    \/ \E v \in Kinds : SetKind(v)
    \/ \E v \in Formats : SetFormat(v)
    \/ \E v \in ThemeOptions : SetTheme(v)
    \/ \E v \in {"", "My card"} : SetTitle(v)
    \/ SetIncludeReport
    \/ \E v \in HideValues : ToggleHide(v)
    \/ \E v \in FieldValues : ToggleField(v)
    \/ FieldSelectAll
    \/ FieldClear

SpecNeutral == Init /\ [][NextNeutral]_vars

\* The export of the form: owner, repo and every group of fields.
NextExport ==
    \/ SetOwner("acme")
    \/ \E v \in {"widgets", "my.repo"} : SetRepo(v)
    \/ \E v \in Kinds : SetKind(v)
    \/ \E v \in Formats : SetFormat(v)
    \/ \E v \in ThemeOptions : SetTheme(v)
    \/ \E v \in {"en", "ru"} : SetLocale(v)
    \/ \E v \in {"", "My card"} : SetTitle(v)
    \/ SetIncludeReport
    \/ \E v \in HideValues : ToggleHide(v)
    \/ FieldSelectAll
    \/ FieldClear
    \/ \E v \in {"#16A4E0", "#ff6a3d"} : SetColor("accent", v)

SpecExport == Init /\ [][NextExport]_vars

\* The numeric inputs.
NumericTexts == {"abc", "-5", "0", "20", "99999"}

NextNumeric ==
    \/ SetOwner("acme")
    \/ SetRepo("widgets")
    \/ \E v \in Kinds : SetKind(v)
    \/ \E v \in Formats : SetFormat(v)
    \/ \E v \in NumericTexts : SetWidth(v)
    \/ \E v \in NumericTexts : SetLangs(v)
    \/ \E v \in NumericTexts : SetDuration(v)
    \/ \E v \in NumericTexts : SetCacheSeconds(v)

SpecNumeric == Init /\ [][NextNumeric]_vars

\* The import box.
NextImport ==
    \/ SetOwner("me")
    \/ SetTitle("My card")
    \/ \E text \in ImportTexts : TypeImport(text)
    \/ applyRepoImport

SpecImport == Init /\ [][NextImport]_vars

\* The preview: the debounce timer and the JSON reads.
NextPreview ==
    \/ SetOwner("acme")
    \/ \E v \in {"widgets", "gadgets"} : SetRepo(v)
    \/ \E v \in Formats : SetFormat(v)
    \/ TimerFire
    \/ \E i \in 1..MaxInflight : FetchSucceed(i)
    \/ \E i \in 1..MaxInflight, error \in FetchFailures : FetchFail(i, error)

SpecPreview == Init /\ [][NextPreview]_vars

\* Refreshes of forms whose owner or repo may be blank, under both formats.
NextRefresh ==
    \/ \E v \in {"", " ", "acme"} : SetOwner(v)
    \/ \E v \in {"", "widgets"} : SetRepo(v)
    \/ \E v \in Kinds : SetKind(v)
    \/ \E v \in Formats : SetFormat(v)
    \/ TimerFire
    \/ \E i \in 1..MaxInflight : FetchSucceed(i)
    \/ \E i \in 1..MaxInflight, error \in FetchFailures : FetchFail(i, error)

SpecRefresh == Init /\ [][NextRefresh]_vars

\* The field selection: toggles, select all, clear, kind and format changes
\* and imports (an import also fills the empty owner and repo).
NextFields ==
    \/ \E v \in Kinds : SetKind(v)
    \/ \E v \in Formats : SetFormat(v)
    \/ \E v \in FieldValues : ToggleField(v)
    \/ FieldSelectAll
    \/ FieldClear
    \/ \E text \in FieldImportTexts : TypeImport(text)
    \/ applyRepoImport

SpecFields == Init /\ [][NextFields]_vars

\* The debounce in time: four edits, each made once, so that every burst of
\* edits ends; time passes and due timeouts run.
NextDebounce ==
    \/ SetOwner("acme")
    \/ SetRepo("widgets")
    \/ SetTitle("My card")
    \/ SetLocale("ru")
    \/ Tick
    \/ TimerExpire

\* Time passes, and the browser runs a timeout that is due.
TimeoutDue ==
    /\ clock.pending # <<>>
    /\ Head(clock.pending) >= DebounceMs
    /\ clock' = [clock EXCEPT !.pending = Tail(@)]

SpecDebounce ==
    Init /\ [][NextDebounce]_vars /\ WF_clock(Tick) /\ WF_clock(TimeoutDue)

\* The palette: presets, random palettes, reset and imports (the palette
\* buttons are enabled under theme custom).
NextPalette ==
    \/ \E v \in ThemeOptions : SetTheme(v)
    \/ \E v \in {"ember", "neon"} : SetPreset(v)
    \/ ApplyPreset
    \/ \E values \in RandomDraws : RandomizePalette(values)
    \/ ResetPalette
    \/ \E text \in PaletteImportTexts : TypeImport(text)
    \/ applyRepoImport

SpecPalette == Init /\ [][NextPalette]_vars

\* Kind, format and theme changes, random-theme picks and imports: all that
\* moves the (kind, format, theme) triple.
NextAvailability ==
    \/ \E v \in {"repo", "quality"} : SetKind(v)
    \/ \E v \in {"svg", "json"} : SetFormat(v)
    \/ \E v \in ThemeOptions : SetTheme(v)
    \/ \E next \in ThemeOptions : PickRandomTheme(next)
    \/ \E text \in FormImportTexts \cup PaletteImportTexts : TypeImport(text)
    \/ applyRepoImport

SpecAvailability == Init /\ [][NextAvailability]_vars

\* Owner and repo texts with blanks, separators and dots, under every kind and
\* format, with other fields holding path-like text.
NextIdentity ==
    \/ \E v \in {"", " acme ", "a b/c"} : SetOwner(v)
    \/ \E v \in {"", "widgets", "my.repo"} : SetRepo(v)
    \/ \E v \in Kinds : SetKind(v)
    \/ \E v \in Formats : SetFormat(v)
    \/ \E v \in {"", "x/y.json?kind=quality"} : SetTitle(v)
    \/ SetIncludeReport
    \/ FieldClear

SpecIdentity == Init /\ [][NextIdentity]_vars

\* ------------------------------------------------------------------------
\* The report page: the trend chart
\* ------------------------------------------------------------------------

\* The history samples drawn: scores whose y coordinate is a whole number, a
\* sample without a commit.
HistorySamples ==
    {[score_total |-> 0, commit_short |-> "a1b2c3d", delta |-> 0],
     [score_total |-> 50, commit_short |-> "", delta |-> 50],
     [score_total |-> 100, commit_short |-> "e4f5a6b", delta |-> 50]}

\* How many samples a history drawn holds at most.  With up to five samples
\* every x coordinate and every control point is a whole number.
MaxSamples == 3

RECURSIVE SeqsUpTo(_, _)
SeqsUpTo(S, n) ==
    IF n = 0 THEN {<<>>}
    ELSE SeqsUpTo(S, n - 1)
         \cup {Append(q, x) : q \in {p \in SeqsUpTo(S, n - 1) : Len(p) = n - 1}, x \in S}

\* What renderTrendChart is handed: an array of samples, or a value that is no
\* array (null).
Histories ==
    {[isArray |-> TRUE, items |-> q] : q \in SeqsUpTo(HistorySamples, MaxSamples)}
    \cup {[isArray |-> FALSE, items |-> <<>>]}

TrendWidth == 1020
TrendHeight == 300
TrendPadX == 42
TrendPadY == 32

\* x of the sample at index (from 0) of n, times Math.max(n - 1, 1), and y of
\* a score, times max - min = 100: the two quotients of the map callback
\* before their division.
TrendXScaled(index, n) ==
    TrendPadX * Max(n - 1, 1) + index * (TrendWidth - TrendPadX * 2)
TrendYScaled(score) ==
    (TrendHeight - TrendPadY) * 100 - score * (TrendHeight - TrendPadY * 2)

\* history.map((item, index) => ({x, y, item})), index counted from 1 here.
TrendPoint(items, i) ==
    [x |-> TrendXScaled(i - 1, Len(items)) \div Max(Len(items) - 1, 1),
     y |-> TrendYScaled(items[i].score_total) \div 100,
     item |-> items[i]]

\* Points whose y grows with the score (what C32 excludes).
TrendPointsUpward(items) ==
    [i \in 1..Len(items) |->
        [x |-> TrendXScaled(i - 1, Len(items)) \div Max(Len(items) - 1, 1),
         y |-> TrendPadY + (items[i].score_total * (TrendHeight - TrendPadY * 2)) \div 100,
         item |-> items[i]]]

TrendPoints(items) == [i \in 1..Len(items) |-> TrendPoint(items, i)]

\* One " C cx prev.y, cx current.y, current.x current.y" piece.
SmoothSegment(prev, current, cx) ==
    " C " \o NatToStr(cx) \o " " \o NatToStr(prev.y) \o ", "
    \o NatToStr(cx) \o " " \o NatToStr(current.y) \o ", "
    \o NatToStr(current.x) \o " " \o NatToStr(current.y)

RECURSIVE SmoothSegments(_, _)
SmoothSegments(points, i) ==
    IF i > Len(points) THEN ""
    ELSE SmoothSegment(points[i - 1], points[i], (points[i - 1].x + points[i].x) \div 2)
         \o SmoothSegments(points, i + 1)

\* A path that starts at the second point (what C19 excludes).
buildSmoothPathFromSecond(points) ==
    IF Len(points) = 0 THEN ""
    ELSE "M " \o NatToStr(points[Min(2, Len(points))].x) \o " "
         \o NatToStr(points[Min(2, Len(points))].y) \o SmoothSegments(points, 3)

buildSmoothPath(points) ==
    IF Len(points) = 0 THEN ""
    ELSE "M " \o NatToStr(points[1].x) \o " " \o NatToStr(points[1].y)
         \o SmoothSegments(points, 2)

NotAvailable == "n/a"
LastScoreLabel == "Last score"

\* escapeHtml(value)
EscapeHtmlCh(c) ==
    CASE c = "&" -> "&amp;"
      [] c = "<" -> "&lt;"
      [] c = ">" -> "&gt;"
      [] c = "\"" -> "&quot;"
      [] c = "'" -> "&#039;"
      [] OTHER -> c

escapeHtml(value) == MapStr(EscapeHtmlCh, value)

\* Math.max(1, Math.ceil(points.length / 9))
LabelStep(n) == Max(1, (n + 8) \div 9)

\* Labels that leave out the forced one at the last point (what C22 excludes).
xLabelsStrideOnly(points, step) ==
    LET shown == SelectSeq([i \in 1..Len(points) |-> i - 1],
                           LAMBDA index : index % step = 0)
    IN  [k \in 1..Len(shown) |->
            [index |-> shown[k],
             x |-> points[shown[k] + 1].x,
             label |-> escapeHtml(IF Len(points[shown[k] + 1].item.commit_short) > 0
                                  THEN points[shown[k] + 1].item.commit_short
                                  ELSE NotAvailable)]]

\* xLabels: the <text> elements drawn under the axis, with the index (from
\* 0) of the point each belongs to; a point that is neither on the stride nor
\* the last one contributes "".
xLabels(points, step) ==
    LET shown == SelectSeq([i \in 1..Len(points) |-> i - 1],
                           LAMBDA index : ~(index % step # 0 /\ index # Len(points) - 1))
    IN  [k \in 1..Len(shown) |->
            [index |-> shown[k],
             x |-> points[shown[k] + 1].x,
             label |-> escapeHtml(IF Len(points[shown[k] + 1].item.commit_short) > 0
                                  THEN points[shown[k] + 1].item.commit_short
                                  ELSE NotAvailable)]]

\* What root.innerHTML holds after a render: the two paths, the circles, the
\* axis labels, the caption, and the inline style of the line (the grid is the
\* same in every chart).
TrendChart(points, linePath, last) ==
    [linePath |-> linePath,
     xLabels |-> xLabels(points, LabelStep(Len(points))),
     areaPath |-> linePath \o " L " \o NatToStr(points[Len(points)].x) \o " "
                  \o NatToStr(TrendHeight - TrendPadY) \o " L " \o NatToStr(points[1].x)
                  \o " " \o NatToStr(TrendHeight - TrendPadY) \o " Z",
     circles |-> [i \in 1..Len(points) |-> <<points[i].x, points[i].y>>],
     caption |-> LastScoreLabel \o ": " \o NatToStr(last.score_total) \o "/100 ("
                 \o (IF Len(last.commit_short) > 0 THEN last.commit_short ELSE NotAvailable)
                 \o ")",
     strokeDasharray |-> "length",
     strokeDashoffset |-> "length"]

\* The frames requested earlier hold the line of the chart they were
\* requested for: once root.innerHTML is replaced they no longer hold the
\* current line.
Detached(frames) == [i \in 1..Len(frames) |-> FALSE]

\* The chart of each history drawn that has a sample, computed once.
ChartOfPoints(points) ==
    TrendChart(points, buildSmoothPath(points), points[Len(points)].item)

\* Longer histories, for the axis labels: lengths at which every x coordinate
\* and control point is a whole number (n - 1 divides 468), the samples taken
\* in turn from three, one without a commit and one whose commit holds markup.
LabelLengths == {10, 13, 14, 19, 27, 37}

LabelSamples ==
    <<[score_total |-> 0, commit_short |-> "a1b2c3d", delta |-> 0],
      [score_total |-> 50, commit_short |-> "", delta |-> 50],
      [score_total |-> 100, commit_short |-> "<e4&f5>", delta |-> 50]>>

LabelItems ==
    {[i \in 1..n |-> LabelSamples[((i + k) % 3) + 1]] : n \in LabelLengths, k \in 0..2}

LabelHistories == {[isArray |-> TRUE, items |-> q] : q \in LabelItems}

\* Histories for the axes: every pair of two scores whose y is a whole
\* number, and one history of each length up to MaxSamples + 1.
AxisScores == {0, 25, 50, 75, 100}
AxisSample(score) == [score_total |-> score, commit_short |-> "a1b2c3d", delta |-> 0]
AxisItems ==
    {<<AxisSample(a), AxisSample(b)>> : a \in AxisScores, b \in AxisScores}
    \cup {[i \in 1..n |-> AxisSample(((i * 75) % 125))] : n \in 2..(MaxSamples + 1)}
AxisHistories == {[isArray |-> TRUE, items |-> q] : q \in AxisItems}

ChartTable ==
    [items \in (SeqsUpTo(HistorySamples, MaxSamples) \ {<<>>}) \cup LabelItems
               \cup AxisItems |->
        ChartOfPoints(TrendPoints(items))]

TrendRendered(tr, items) ==
    [tr EXCEPT !.fallbackHidden = TRUE,
               !.chart = <<ChartTable[items]>>,
               !.frames = Append(Detached(tr.frames), TRUE)]

\* A short history that shows the fallback and leaves the chart in place (what
\* C19 excludes).
renderTrendChartKeepChart(tr, history) ==
    IF ~history.isArray \/ Len(history.items) < 2
    THEN [tr EXCEPT !.fallbackHidden = FALSE]
    ELSE TrendRendered(tr, history.items)

\* renderTrendChart(root, history, lastScoreLabel, lang, fallbackEl): the
\* style of the line is set to the retracted state ("length" stands for the
\* text of getTotalLength()) and one animation frame is requested.  The
\* function reads no host preference.
renderTrendChart(tr, history) ==
    IF ~history.isArray \/ Len(history.items) < 2
    THEN [tr EXCEPT !.fallbackHidden = FALSE,
                    !.chart = <<>>,
                    !.frames = Detached(tr.frames)]
    ELSE TrendRendered(tr, history.items)

\* How many animation frames may be requested and not yet run.
MaxFrames == 2

TrendFrame == UNCHANGED <<form, importInput, importError, timer, clock, preview, inflight,
                          generatorDefaultPalette, uncaught, staticPage,
                          dial, progress, scan, copy>>

\* initReportPage calls renderTrendChart with the history it found.
RenderTrendChart(history) ==
    /\ Len(trend.frames) < MaxFrames
    /\ trend' = renderTrendChart(trend, history)
    /\ TrendFrame

\* The browser runs the oldest requested frame: line.style.strokeDashoffset =
\* "0" on the line the callback holds.
AnimationFrame ==
    /\ trend.frames # <<>>
    /\ trend' = [trend EXCEPT
                    !.frames = Tail(@),
                    !.chart = IF Head(trend.frames) /\ trend.chart # <<>>
                              THEN <<[trend.chart[1] EXCEPT !.strokeDashoffset = "0"]>>
                              ELSE @]
    /\ TrendFrame

\* The host's prefers-reduced-motion setting changes.
SetReducedMotion(b) ==
    /\ trend.reducedMotion # b
    /\ trend' = [trend EXCEPT !.reducedMotion = b]
    /\ TrendFrame

NextTrend ==
    \/ \E history \in Histories : RenderTrendChart(history)
    \/ AnimationFrame
    \/ \E b \in BOOLEAN : SetReducedMotion(b)

SpecTrend == Init /\ [][NextTrend]_vars

\* The trend chart of short and of long histories.
NextLabels ==
    \/ \E history \in Histories \cup LabelHistories : RenderTrendChart(history)
    \/ AnimationFrame
    \/ \E b \in BOOLEAN : SetReducedMotion(b)

SpecLabels == Init /\ [][NextLabels]_vars

\* The trend chart of the axis histories.
NextAxes ==
    \/ \E history \in AxisHistories : RenderTrendChart(history)
    \/ AnimationFrame
    \/ \E b \in BOOLEAN : SetReducedMotion(b)

SpecAxes == Init /\ [][NextAxes]_vars

\* The import boxes of both pages, given GitHub repository URLs.
NextGitHub ==
    \/ \E text \in GitHubTexts : TypeImport(text)
    \/ applyRepoImport
    \/ \E text \in StaticImportTexts : StaticTypeImport(text)
    \/ StaticImportClick

SpecGitHub == Init /\ [][NextGitHub]_vars

\* References that name an owner and a repo and nothing else, imported into
\* forms whose other controls were edited.
RepoOnlyTexts == {"https://github.com/acme/widgets.git", "acme/widgets"}

NextRepoOnly ==
    \/ \E v \in Kinds : SetKind(v)
    \/ \E v \in Formats : SetFormat(v)
    \/ SetTheme("nord")
    \/ SetLocale("ru")
    \/ SetTitle("My card")
    \/ SetWidth("900")
    \/ SetIncludeReport
    \/ \E v \in {"stars", "ring"} : ToggleHide(v)
    \/ FieldClear
    \/ \E text \in RepoOnlyTexts : TypeImport(text)
    \/ applyRepoImport

SpecRepoOnly == Init /\ [][NextRepoOnly]_vars

\* The choice controls: edits, and imports that name no choice, unknown
\* choices and known ones.
NextChoices ==
    \/ \E v \in Kinds : SetKind(v)
    \/ \E v \in Formats : SetFormat(v)
    \/ \E v \in ThemeOptions : SetTheme(v)
    \/ SetLocale("ru")
    \/ SetAnimation("ring")
    \/ \E text \in ChoiceImportTexts \cup {"acme/widgets"} : TypeImport(text)
    \/ applyRepoImport

SpecChoices == Init /\ [][NextChoices]_vars

\* ------------------------------------------------------------------------
\* Properties
\* ------------------------------------------------------------------------

\* The exported URL of the form ("" when there is none), and the names of the
\* parameters of a URL.
ExportedUrl == IF Len(buildGeneratorPath(form)) = 0 THEN "" ELSE Origin \o buildGeneratorPath(form)
ParamNames(url) ==
    LET params == ParseURL(url).params
    IN  {params[i][1] : i \in 1..Len(params)}

\* Two forms hold the same configuration: owner, repo, kind, format, locale (a
\* control no kind or format disables) and every field of a group enabled for
\* that kind, format and theme.
SameConfig(a, b) ==
    /\ Trim(a.owner) = Trim(b.owner)
    /\ Trim(a.repo) = Trim(b.repo)
    /\ a.kind = b.kind
    /\ a.format = b.format
    /\ a.locale = b.locale
    /\ a.format = "svg" =>
          /\ a.theme = b.theme
          /\ Trim(a.title) = Trim(b.title)
          /\ a.width = b.width
          /\ a.animate = b.animate
          /\ a.animation = b.animation
          /\ a.duration = b.duration
          /\ a.cacheSeconds = b.cacheSeconds
          /\ selectedGeneratorHideFlags(a) = selectedGeneratorHideFlags(b)
          /\ a.theme = "custom" =>
                generatorPaletteFromInputs(a) = generatorPaletteFromInputs(b)
    /\ a.kind = "repo" => a.langs = b.langs
    /\ a.format = "json" =>
          /\ selectedGeneratorFieldFlags(a) = selectedGeneratorFieldFlags(b)
          /\ a.kind = "quality" => a.includeReport = b.includeReport

\* C1: importing the URL exported from the form, on a freshly loaded page,
\* succeeds and yields the configuration of the form: the same owner, repo,
\* kind, format and enabled fields.
RoundTrip ==
    LET url == ExportedUrl
        parsed == parseGeneratorImport(url)
    IN  Len(url) > 0 =>
            /\ parsed.tag = "ok"
            /\ SameConfig(applyGeneratorImportToForm(InitForm, parsed), form)

\* C2: the exported URL names a parameter of the SVG group only when format is
\* svg, langs_count only when kind is repo, include_report only when kind is
\* quality and format is json, fields only when format is json, and a palette
\* key only when format is svg and theme is custom.
SvgParamNames ==
    {"theme", "title", "hide", "card_width", "animate", "animation", "duration",
     "cache_seconds"}

ExportOnlyEnabledGroups ==
    LET names == ParamNames(ExportedUrl)
    IN  /\ names \cap SvgParamNames # {} => form.format = "svg"
        /\ "langs_count" \in names => form.kind = "repo"
        /\ "include_report" \in names => form.kind = "quality" /\ form.format = "json"
        /\ "fields" \in names => form.format = "json"
        /\ names \cap ThemeKeys # {} => form.format = "svg" /\ form.theme = "custom"

\* A JSON export of a form that still stores a title, hide-free but with the
\* custom theme and a changed palette.
ExportOnlyEnabledGroupsWitness ==
    /\ form.format = "json"
    /\ form.kind = "repo"
    /\ form.title = "My card"
    /\ form.theme = "custom"
    /\ form.colors # InitForm.colors
    /\ "fields" \in ParamNames(ExportedUrl)

\* The numeric parameters of an export with the input each is read from, its
\* default and its range.
NumericParams(f) ==
    (IF f.format = "svg"
     THEN {[name |-> "card_width", text |-> f.width, default |-> 760, lo |-> 640, hi |-> 1400],
           [name |-> "duration", text |-> f.duration, default |-> 1400, lo |-> 350, hi |-> 7000],
           [name |-> "cache_seconds", text |-> f.cacheSeconds, default |-> 21600, lo |-> 0,
            hi |-> 86400]}
     ELSE {})
    \cup (IF f.kind = "repo"
          THEN {[name |-> "langs_count", text |-> f.langs, default |-> 4, lo |-> 1,
                 hi |-> IF f.format = "svg" THEN 10 ELSE 30]}
          ELSE {})

\* C8: whatever finite number is typed into the width, duration, cache-seconds
\* and languages-count inputs, the exported URL carries card_width in
\* [640, 1400], duration in [350, 7000], cache_seconds in [0, 86400] and
\* langs_count in [1, 10] for svg, [1, 30] for json.
NumericRanges ==
    LET params == ParseURL(ExportedUrl).params
    IN  Len(ExportedUrl) > 0 =>
            \A p \in NumericParams(form) :
                IsFinite(NumberField(p.text, p.default)) =>
                    /\ IsSome(ParamsGet(params, p.name))
                    /\ IsFinite(NumberOf(Val(ParamsGet(params, p.name))))
                    /\ NumberOf(Val(ParamsGet(params, p.name))).v >= p.lo
                    /\ NumberOf(Val(ParamsGet(params, p.name))).v <= p.hi

\* An SVG export of a repo card after a negative width, a zero languages count
\* and a huge cache time were typed.
NumericRangesWitness ==
    /\ Len(ExportedUrl) > 0
    /\ form.format = "svg"
    /\ form.kind = "repo"
    /\ form.width = "-5"
    /\ form.langs = "0"
    /\ form.cacheSeconds = "99999"
    /\ ParamsGet(ParseURL(ExportedUrl).params, "card_width") = Some("640")

\* C9: a numeric input whose text is not a finite number is exported as the
\* default of its field, and every numeric parameter exported is a finite
\* number.
NonNumericFallsBack ==
    LET params == ParseURL(ExportedUrl).params
    IN  Len(ExportedUrl) > 0 =>
            \A p \in NumericParams(form) :
                /\ IsSome(ParamsGet(params, p.name))
                /\ IsFinite(NumberOf(Val(ParamsGet(params, p.name))))
                /\ ~IsFinite(NumberField(p.text, p.default)) =>
                       ParamsGet(params, p.name) = Some(NatToStr(p.default))

\* The hide options the page allows to select for a kind and format.
HideSupported(f) == IF f.format = "svg" THEN HideAllowed(f.kind) ELSE {}

HideSelectionValid ==
    /\ form.hideChecked \subseteq HideAllowed(form.kind)
    /\ form.format # "svg" => form.hideChecked = {}
    /\ form.hide = JoinChecked(HideOptions, form.hideChecked)

\* C3: at every state every checked hide option is one permitted for the kind,
\* none is checked unless format is svg, and the hidden hide field is the
\* checked options joined; and a change of kind leaves checked exactly those of
\* the options checked before that are permitted for the new kind.
HideFlagsPermitted ==
    /\ []HideSelectionValid
    /\ [][(\E v \in Kinds : SetKind(v)) =>
              form'.hideChecked = form.hideChecked \cap HideSupported(form')]_vars

\* Kind quality after footer (permitted for both kinds) stayed checked while
\* the options of kind repo are disabled and unchecked.
HideFlagsPermittedWitness ==
    /\ form.kind = "quality"
    /\ form.format = "svg"
    /\ form.hideChecked = {"footer"}
    /\ form.hide = "footer"
    /\ {"stars", "forks"} \subseteq form.hideDisabled

\* C10: a field outside its availability group holds its neutral value: no
\* hide flag and an empty title unless format is svg, include-report unchecked
\* unless kind is quality and format is json, all field flags checked unless
\* format is json.
UnavailableFieldsNeutral ==
    /\ form.format # "svg" => form.hideChecked = {} /\ form.title = ""
    /\ ~(form.kind = "quality" /\ form.format = "json") => ~form.includeReport
    /\ form.format # "json" => form.fieldChecked = FieldValues

\* C4: an import whose text has none of the recognized shapes changes no
\* control of the form, shows the import error message and leaves the debounce
\* timer, the preview and the reads as they are; and an import changes the form
\* only when its parse succeeded.
FailedImportChangesNothing ==
    [][applyRepoImport =>
          /\ ParseOf(importInput).tag = "null" =>
                /\ form' = form
                /\ importError' = InvalidGeneratorRepoUrl
                /\ timer' = timer
                /\ preview' = preview
                /\ inflight' = inflight
          /\ form' # form => ParseOf(importInput).tag = "ok"]_vars

\* The error message is shown for a text of no shape and no refresh is pending.
FailedImportChangesNothingWitness ==
    /\ importInput = "not a reference"
    /\ importError = InvalidGeneratorRepoUrl
    /\ ~timer

\* The shapes of an import text: both owner and repo parameters, or the stats
\* path.
RequestShaped(text) ==
    LET url == ParseURL(extractGeneratorImportUrl(text))
    IN  /\ Len(extractGeneratorImportUrl(text)) > 0
        /\ url.ok
        /\ IsSome(ParamsGet(url.params, "owner")) /\ Len(Val(ParamsGet(url.params, "owner"))) > 0
        /\ IsSome(ParamsGet(url.params, "repo")) /\ Len(Val(ParamsGet(url.params, "repo"))) > 0

PathShaped(text) ==
    LET url == ParseURL(extractGeneratorImportUrl(text))
    IN  /\ Len(extractGeneratorImportUrl(text)) > 0
        /\ url.ok
        /\ StatsMatch(url.pathname) # <<>>

\* C5: the parse of a request-shaped text is the request-shaped parse, that of
\* a path-shaped text that is not request-shaped the path-shaped parse, and a
\* text of either shape is never parsed as a GitHub URL or as a shorthand.
ShapePriority ==
    LET r == ParseOf(importInput)
    IN  /\ RequestShaped(importInput) /\ r.tag = "ok" => r.shape = "request"
        /\ ~RequestShaped(importInput) /\ PathShaped(importInput) /\ r.tag = "ok" =>
               r.shape = "path"
        /\ RequestShaped(importInput) \/ PathShaped(importInput) =>
               r.shape \notin {"github", "short"}

\* C6: the parse of every text either is a result with owner and repo or is
\* the failure value, and no import ends in an exception.
ImportIsTotal ==
    LET r == ParseOf(importInput)
    IN  /\ r.tag \in {"ok", "null"}
        /\ r.tag = "ok" => Len(r.owner) > 0 /\ Len(r.repo) > 0
        /\ ~uncaught

\* C7: the text shown for a failed JSON preview read is the one fixed message.
FixedFailureMessage ==
    preview.json.k = "message" => preview.json.v = FailedToLoadJson

TimeoutRuns == Len(clock'.pending) < Len(clock.pending)

TrailingDebounce ==
    /\ [](Len(clock.pending) <= 1 /\ (timer <=> clock.pending # <<>>))
    /\ [][TimeoutRuns =>
            /\ clock.sinceEdit = DebounceMs
            /\ clock'.pending = <<>>
            /\ form' = form
            /\ preview' = RefreshPreview(form, preview).preview]_vars
    /\ (timer ~> ~timer)

\* Owner and repo have both been set since the last refresh, and the one
\* pending timeout is due.
TrailingDebounceWitness ==
    /\ form.owner = "acme" /\ form.repo = "widgets"
    /\ preview.url = ""
    /\ clock.pending = <<DebounceMs>>

\* C13: a read in flight is never cancelled nor checked against the current
\* URL: a step never drops a read except by resolving it, and the read that
\* resolves puts its own document (or its failure text) in the preview.
Without(q, i) == SubSeq(q, 1, i - 1) \o SubSeq(q, i + 1, Len(q))

ReadsNeverCancelled ==
    [][IF Len(inflight') < Len(inflight)
       THEN \E i \in 1..Len(inflight) :
               /\ inflight' = Without(inflight, i)
               /\ preview'.url = preview.url
               /\ preview'.json \in
                      {JsonDocument(inflight[i])}
                      \cup {JsonMessage(CatchText(error)) : error \in FetchFailures}
       ELSE SubSeq(inflight', 1, Len(inflight)) = inflight]_vars

\* Every read has resolved and the document shown is the one of an older
\* request than the URL shown.
ReadsNeverCancelledWitness ==
    /\ inflight = <<>>
    /\ ~preview.jsonHidden
    /\ preview.url # ""
    /\ preview.json.k = "document"
    /\ preview.json.v # preview.url

\* C14: the captured default palette never changes after the capture made
\* when the page starts, and a reset puts in all 16 colour inputs the values
\* they had at that capture, whatever presets, random palettes and imports
\* were applied in between.
ResetRestoresCapture ==
    /\ [](generatorDefaultPalette = Some([key \in ThemeKeys |-> Some(TemplateForm.colors[key])]))
    /\ [][ResetPalette => form'.colors = TemplateForm.colors]_vars

\* The palette is that of the first capture again, after an import changed it
\* and a preset other than the initial one was chosen.
ResetRestoresCaptureWitness ==
    /\ form.colors = TemplateForm.colors
    /\ form.owner = "acme"
    /\ form.preset = "neon"
    /\ form.theme = "custom"

\* C15: every colour input holds "#" and six upper-case hexadecimal digits;
\* an import with well-formed and malformed palette values succeeds, sets
\* each key whose value is well-formed (shorthand expanded, upper-cased) and
\* leaves every other key as it was.
WellFormedColor(c) ==
    /\ Len(c) = 7
    /\ Ch(c, 1) = "#"
    /\ \A i \in 2..7 : Ch(c, i) \in HexSet

\* The colours an import of each text must set, written out by hand.
ExpectedImportColors ==
    [text \in PaletteImportTexts |->
        IF text = "/api?owner=acme&repo=widgets&accent=fff&fail=%23FFF"
        THEN [key \in {"fail"} |-> "#FFFFFF"]
        ELSE [key \in {"accent", "panel"} |->
                 IF key = "accent" THEN "#AABBCC" ELSE "#A1B2C3"]]

PaletteWellFormed ==
    /\ [](\A key \in ThemeKeys : WellFormedColor(form.colors[key]))
    /\ [][(applyRepoImport /\ importInput \in PaletteImportTexts) =>
            /\ importError' = "" /\ ~uncaught' /\ form'.owner = "acme"
            /\ \A key \in ThemeKeys :
                  form'.colors[key] =
                      IF key \in DOMAIN ExpectedImportColors[importInput]
                      THEN ExpectedImportColors[importInput][key]
                      ELSE form.colors[key]]_vars

\* The mixed import has been applied over a random palette.
PaletteWellFormedWitness ==
    /\ form.colors["accent"] = "#AABBCC"
    /\ form.colors["panel"] = "#A1B2C3"
    /\ form.colors["text"] = "#0ABCDE"
    /\ form.colors["border"] = "#FFFFFE"

\* C16: after any sequence of kind, format and theme changes, random-theme
\* picks and imports, each control group is enabled exactly when its
\* availability predicate holds of the current (kind, format, theme): the
\* SVG-only controls and the hide checkboxes of the kind iff format is svg,
\* the languages count iff kind is repo, include-report iff kind is quality
\* and format is json, the fields input and the field checkboxes of the kind
\* iff format is json, the palette editor with its preset, randomize and reset
\* controls iff format is svg and theme is custom.
ControlAvailability ==
    /\ \A id \in GENERATOR_SVG_ONLY_IDS :
          (id \notin form.disabled) <=> (form.format = "svg")
    /\ \A v \in HideAllowed(form.kind) :
          (v \notin form.hideDisabled) <=> (form.format = "svg")
    /\ ("gen-langs" \notin form.disabled) <=> (form.kind = "repo")
    /\ ("gen-include-report" \notin form.disabled)
          <=> (form.kind = "quality" /\ form.format = "json")
    /\ ("gen-fields" \notin form.disabled) <=> (form.format = "json")
    /\ \A v \in FieldAllowed(form.kind) :
          (v \notin form.fieldDisabled) <=> (form.format = "json")
    /\ \A id \in ColorIds \cup PaletteControlIds :
          (id \notin form.disabled)
              <=> (form.format = "svg" /\ form.theme = "custom")

\* An import has moved a form of theme custom to quality and json: the report
\* checkbox is enabled and the palette editor is not.
ControlAvailabilityWitness ==
    /\ importInput = "/api?owner=acme&repo=widgets&kind=quality&format=json&include_report=1&fields=job_id"
    /\ form.kind = "quality"
    /\ form.format = "json"
    /\ form.theme = "custom"
    /\ "gen-include-report" \notin form.disabled
    /\ ColorIds \cup PaletteControlIds \subseteq form.disabled

\* What a URL path of the shape /api/stats/{kind}/{owner}/{repo}.{format}
\* names: the segments by position, the format after the last dot of the last
\* segment, owner and repo decoded. <<>> when the path has another shape.
RECURSIVE LastIndexOf(_, _, _)
LastIndexOf(s, c, i) ==
    IF i < 1 THEN 0
    ELSE IF Ch(s, i) = c THEN i
    ELSE LastIndexOf(s, c, i - 1)

IdentityOfFile(kind, owner, file, dot) ==
    IF dot = 0 \/ DecodeThrows(owner) \/ DecodeThrows(file) THEN <<>>
    ELSE <<[owner |-> decodeURIComponent(owner),
            repo |-> decodeURIComponent(SubSeq(file, 1, dot - 1)),
            kind |-> kind,
            format |-> From(file, dot + 1)]>>

IdentityOfSegments(seg) ==
    IF Len(seg) # 6 THEN <<>>
    ELSE IF seg[1] # "" \/ seg[2] # "api" \/ seg[3] # "stats" THEN <<>>
    ELSE IdentityOfFile(seg[4], seg[5], seg[6], LastIndexOf(seg[6], ".", Len(seg[6])))

PathBeforeQuery(path, q) == IF q = 0 THEN path ELSE SubSeq(path, 1, q - 1)

ExportIdentity(path) ==
    IdentityOfSegments(Split(PathBeforeQuery(path, FindAny(path, {"?"}, 1)), "/"))

FormIdentity ==
    <<[owner |-> Trim(form.owner), repo |-> Trim(form.repo),
       kind |-> form.kind, format |-> form.format]>>

\* C17 as stated: in every reachable form state the output of
\* buildGeneratorPath identifies the owner, the repo, a kind in {repo, quality}
\* and a format in {svg, json}.
ExportAlwaysCarriesIdentity ==
    /\ ExportIdentity(buildGeneratorPath(form)) = FormIdentity
    /\ form.kind \in Kinds
    /\ form.format \in Formats

\* C17 amended: in every reachable form state whose owner and repo are not
\* empty after trimming, the output of buildGeneratorPath identifies the owner,
\* the repo, a kind in {repo, quality} and a format in {svg, json}, whatever the
\* other fields are; when owner or repo is empty the output is empty.
ExportCarriesIdentity ==
    IF Len(Trim(form.owner)) = 0 \/ Len(Trim(form.repo)) = 0
    THEN buildGeneratorPath(form) = ""
    ELSE ExportAlwaysCarriesIdentity

\* A quality/json export of an owner with a blank and a separator and a repo
\* with a dot, the title holding a path-like text.
ExportCarriesIdentityWitness ==
    /\ form.owner = "a b/c"
    /\ form.repo = "my.repo"
    /\ form.kind = "quality"
    /\ form.format = "json"
    /\ form.title = "x/y.json?kind=quality"
    /\ Len(buildGeneratorPath(form)) > 0

\* C18: in both import parsers, https://github.com/{owner}/{repo} followed by
\* any trailing path, query or fragment, with an optional .git on the repo,
\* parses to exactly {owner, repo} with the .git removed; so an import of such
\* a text is never rejected.
GitHubImportExact ==
    /\ importInput \in GitHubTexts =>
          /\ ParseOf(importInput) = RepoParse("github", "acme", "widgets")
          /\ importError = ""
    /\ staticPage.repoUrl \in GitHubTexts =>
          /\ StaticParseOf(staticPage.repoUrl) = RepoParse("github", "acme", "widgets")
          /\ staticPage.importError = ""

\* The server page alone, on the same texts.
GitHubImportExactServer ==
    importInput \in GitHubTexts =>
        /\ ParseOf(importInput) = RepoParse("github", "acme", "widgets")
        /\ importError = ""

\* C19: renderTrendChart with a history of fewer than 2 samples, or with a
\* value that is no list, shows the fallback and empties the chart container
\* (so no path is drawn), also when a chart was rendered earlier; with 2 or
\* more samples it hides the fallback and draws a line path that starts with a
\* move-to at the x and y computed for the first sample.
FirstSampleMoveTo(items) ==
    "M " \o NatToStr(TrendPadX) \o " "
    \o NatToStr(268 - (236 * items[1].score_total) \div 100)

TrendFallbackOrPath ==
    [][\A history \in Histories :
          RenderTrendChart(history) =>
              IF ~history.isArray \/ Len(history.items) < 2
              THEN /\ ~trend'.fallbackHidden
                   /\ trend'.chart = <<>>
              ELSE /\ trend'.fallbackHidden
                   /\ trend'.chart # <<>>
                   /\ StartsWith(trend'.chart[1].linePath,
                                 FirstSampleMoveTo(history.items) \o " C ")]_vars

\* The fallback is shown over an empty container while a frame requested for
\* an earlier chart is still to run: a short history was rendered after a
\* chart.
TrendFallbackOrPathWitness ==
    /\ ~trend.fallbackHidden
    /\ trend.chart = <<>>
    /\ trend.frames # <<>>

\* C20: when the host signals a reduced-motion preference, renderTrendChart
\* does not put the line in the retracted state (stroke offset equal to its
\* length) and requests no animation frame.
ReducedMotionSkipsReveal ==
    [][\A history \in Histories :
          (trend.reducedMotion /\ RenderTrendChart(history) /\ trend'.chart # <<>>) =>
              /\ trend'.chart[1].strokeDashoffset # "length"
              /\ Len(trend'.frames) = Len(trend.frames)]_vars

\* C28: importing a reference that carries only owner and repo sets owner and
\* repo, leaves kind, format, theme, locale, width, languages count, animate,
\* animation mode, duration, cache seconds and the palette as they were, and
\* resets the title to empty, the hide flags to none, include-report to false
\* and the field flags to every selectable field.
RepoOnlyImportFrame ==
    [][(importInput \in RepoOnlyTexts /\ applyRepoImport) =>
          /\ form'.owner = "acme" /\ form'.repo = "widgets"
          /\ form'.kind = form.kind /\ form'.format = form.format
          /\ form'.theme = form.theme /\ form'.locale = form.locale
          /\ form'.width = form.width /\ form'.langs = form.langs
          /\ form'.animate = form.animate /\ form'.animation = form.animation
          /\ form'.duration = form.duration /\ form'.cacheSeconds = form.cacheSeconds
          /\ form'.colors = form.colors
          /\ form'.title = ""
          /\ form'.hideChecked = {} /\ form'.hide = ""
          /\ form'.includeReport = FALSE
          /\ form'.fieldChecked \ form'.fieldDisabled = FieldValues \ form'.fieldDisabled]_vars

\* A quality/json form of theme nord, locale ru and width 900 after the
\* import of the GitHub URL: the edited choices are kept, the title is empty.
RepoOnlyImportFrameWitness ==
    /\ importInput = "https://github.com/acme/widgets.git"
    /\ form.owner = "acme" /\ form.repo = "widgets"
    /\ form.kind = "quality" /\ form.format = "json"
    /\ form.theme = "nord" /\ form.locale = "ru" /\ form.width = "900"
    /\ form.title = "" /\ ~form.includeReport
    /\ form.fieldChecked = FieldValues \ form.fieldDisabled

\* C29: a preview refresh starts exactly one network read when format is json
\* and owner and repo are not blank, and none otherwise; after it the Markdown
\* embed is non-empty, and Copy Markdown enabled, exactly when format is svg
\* and the URL is non-empty; with a blank owner or repo the URL, the embed, the
\* image reference and the JSON text are cleared and open, Copy URL and Copy
\* Markdown are disabled.
BlankIdentity == Len(Trim(form.owner)) = 0 \/ Len(Trim(form.repo)) = 0

RefreshOutcome ==
    [][TimerFire =>
          /\ Len(inflight') - Len(inflight)
                = (IF form.format = "json" /\ ~BlankIdentity THEN 1 ELSE 0)
          /\ (Len(preview'.md) > 0) <=> (form.format = "svg" /\ Len(preview'.url) > 0)
          /\ (~preview'.copyMdDisabled) <=> (form.format = "svg" /\ Len(preview'.url) > 0)
          /\ BlankIdentity =>
                /\ preview'.url = "" /\ preview'.md = "" /\ preview'.imageSrc = ""
                /\ preview'.json = NoJson
                /\ preview'.openDisabled /\ preview'.copyUrlDisabled
                /\ preview'.copyMdDisabled]_vars

\* A refresh of a json form has started its read: the URL is shown, the embed
\* is empty and its copy button disabled, and a card was shown before.
RefreshOutcomeWitness ==
    /\ ~timer
    /\ form.format = "json"
    /\ Len(inflight) = 1
    /\ inflight[1] = preview.url
    /\ preview.md = ""
    /\ preview.copyMdDisabled /\ ~preview.copyUrlDisabled /\ ~preview.openDisabled
    /\ Len(preview.imageSrc) > 0

\* The choices of the form are among those its controls offer.
ChoicesValid ==
    /\ form.kind \in Kinds
    /\ form.format \in Formats
    /\ form.theme \in ThemeOptions
    /\ form.locale \in {"en", "ru"}
    /\ form.animation \in AnimationModes

\* What an import of a request-shaped reference does to the choices.
RequestChoices ==
    /\ (importInput \in {MissingChoicesText, UnknownChoicesText} /\ applyRepoImport) =>
          /\ importError' = "" /\ ~uncaught'
          /\ form'.kind = "repo" /\ form'.format = "svg"
          /\ form'.theme = form.theme /\ form'.locale = form.locale
          /\ form'.animation = form.animation
    /\ (importInput = KnownChoicesText /\ applyRepoImport) =>
          /\ importError' = "" /\ ~uncaught'
          /\ form'.kind = "quality" /\ form'.format = "json"
          /\ form'.theme = "nord" /\ form'.locale = "ru" /\ form'.animation = "bars"

\* C30 as stated: after any sequence of imports kind, format, theme, locale
\* and animation mode are among the offered values; an import with a missing
\* or unrecognized kind yields repo and one with a missing or unrecognized
\* format yields svg (the owner/repo shorthand, which names neither,
\* included), an unrecognized theme, locale or animation leaves the selection
\* unchanged, and no such value makes the import fail.
ImportChoices ==
    /\ []ChoicesValid
    /\ [][/\ RequestChoices
          /\ (importInput = "acme/widgets" /\ applyRepoImport) =>
                /\ importError' = "" /\ ~uncaught'
                /\ form'.kind = "repo" /\ form'.format = "svg"]_vars

\* C30 amended: as stated for request-shaped references (owner and repo
\* parameters); a GitHub URL or an owner/repo shorthand, which names no kind
\* and no format, leaves kind and format as they are.
ImportChoicesByShape ==
    /\ []ChoicesValid
    /\ [][/\ RequestChoices
          /\ (importInput = "acme/widgets" /\ applyRepoImport) =>
                /\ importError' = "" /\ ~uncaught'
                /\ form'.kind = form.kind /\ form'.format = form.format]_vars

\* The reference with unknown values was imported into a form of theme nord,
\* locale ru and animation ring: kind and format are the defaults, the three
\* selections are kept.
ImportChoicesByShapeWitness ==
    /\ importInput = UnknownChoicesText
    /\ importError = ""
    /\ form.owner = "acme"
    /\ form.kind = "repo" /\ form.format = "svg"
    /\ form.theme = "nord" /\ form.locale = "ru" /\ form.animation = "ring"

\* C22: for every history length n >= 2 the samples that get an x-axis label
\* are exactly the indices i with i mod ceil(n/9) = 0 together with n - 1; so
\* the first and the last sample are labelled and at most 10 labels are drawn.
CeilNinth(n) == CHOOSE k \in 1..n : 9 * k >= n /\ 9 * (k - 1) < n

LabelledIndices(chart) == {chart.xLabels[k].index : k \in 1..Len(chart.xLabels)}

LabelStride ==
    trend.chart # <<>> =>
        /\ LabelledIndices(trend.chart[1])
              = {i \in 0..(Len(trend.chart[1].circles) - 1) :
                    i % CeilNinth(Len(trend.chart[1].circles)) = 0}
                \cup {Len(trend.chart[1].circles) - 1}
        /\ 0 \in LabelledIndices(trend.chart[1])
        /\ (Len(trend.chart[1].circles) - 1) \in LabelledIndices(trend.chart[1])
        /\ Len(trend.chart[1].xLabels) <= 10

\* A chart of 10 samples: stride 2, and the last index 9 labelled off the
\* stride, six labels in all.
LabelStrideWitness ==
    /\ trend.chart # <<>>
    /\ Len(trend.chart[1].circles) = 10
    /\ LabelledIndices(trend.chart[1]) = {0, 2, 4, 6, 8, 9}
    /\ Len(trend.chart[1].xLabels) = 6

\* ------------------------------------------------------------------------
\* The score dial of the report page (animateScoreDial)
\* ------------------------------------------------------------------------

\* durationMs of animateScoreDial.  Frame timestamps are whole multiples of
\* durationMs / DialSteps past the start, and dial.elapsed counts them, so
\* that progress is elapsed / DialSteps.
durationMs == 1200
DialSteps == 12
FrameGaps == {1, 4, DialSteps}

\* The data-score-target attributes drawn.
DialTargets == {"", "abc", "-5", "0", "1", "50", "73", "99", "100", "250", "Infinity"}

\* Number.isFinite(rawTarget) ? Math.max(0, Math.min(100, rawTarget)) : 0
DialTarget(raw) ==
    LET rawTarget == NumberOf(raw)
    IN  IF IsFinite(rawTarget) THEN Max(0, Min(100, rawTarget.v)) ELSE 0

\* target * easing(progress), times 100 * DialSteps^3, at progress < 1:
\* easing(p) = 1 - (1 - p)^3 with p = (now - start) / durationMs.
DialCube == DialSteps * DialSteps * DialSteps
DialValueScaled(target, elapsed) ==
    LET left == DialSteps - Min(elapsed, DialSteps)
    IN  target * 100 * (DialCube - left * left * left)

\* value.toFixed(2)
DialFixed2(target, elapsed) ==
    LET hundredths == (2 * DialValueScaled(target, elapsed) + DialCube) \div (2 * DialCube)
        cents == hundredths % 100
    IN  NatToStr(hundredths \div 100) \o "." \o NatToStr(cents \div 10) \o NatToStr(cents % 10)

\* `${Math.round(value)}`
DialRounded(target, elapsed) ==
    NatToStr((2 * DialValueScaled(target, elapsed) + 100 * DialCube) \div (200 * DialCube))

\* animateScoreDial(): under reduced motion the final value at once and no
\* frame; otherwise "0" written and the first frame requested.
AnimateScoreDial(raw) ==
    /\ dial.phase = "idle"
    /\ dial' = LET target == DialTarget(raw)
               IN  IF trend.reducedMotion
                   THEN [phase |-> "done", target |-> target, elapsed |-> 0, pending |-> FALSE,
                         score |-> NatToStr(target), number |-> NatToStr(target)]
                   ELSE [phase |-> "running", target |-> target, elapsed |-> 0, pending |-> TRUE,
                         score |-> "0", number |-> "0"]
    /\ UNCHANGED <<form, importInput, importError, timer, preview, inflight, clock,
                   generatorDefaultPalette, uncaught, staticPage, trend, progress, scan, copy>>

\* A frame that leaves value.toFixed(2) on completion (what C21 excludes).
DialFrameNoPin(gap) ==
    /\ dial.pending
    /\ dial' = LET elapsed == dial.elapsed + gap
               IN  [dial EXCEPT !.elapsed = elapsed,
                                !.score = DialFixed2(dial.target, elapsed),
                                !.number = DialRounded(dial.target, elapsed),
                                !.pending = elapsed < DialSteps,
                                !.phase = IF elapsed < DialSteps THEN "running" ELSE "done"]
    /\ UNCHANGED <<form, importInput, importError, timer, preview, inflight, clock,
                   generatorDefaultPalette, uncaught, staticPage, trend, progress, scan, copy>>

\* frame(now), the requested callback run gap steps after the frame before it:
\* the eased value written, then either the next frame requested or, at
\* progress 1, the target written.
DialFrame(gap) ==
    /\ dial.pending
    /\ dial' = LET elapsed == dial.elapsed + gap
               IN  IF elapsed < DialSteps
                   THEN [dial EXCEPT !.elapsed = elapsed,
                                     !.score = DialFixed2(dial.target, elapsed),
                                     !.number = DialRounded(dial.target, elapsed)]
                   ELSE [dial EXCEPT !.elapsed = elapsed,
                                     !.score = NatToStr(dial.target),
                                     !.number = NatToStr(dial.target),
                                     !.pending = FALSE,
                                     !.phase = "done"]
    /\ UNCHANGED <<form, importInput, importError, timer, preview, inflight, clock,
                   generatorDefaultPalette, uncaught, staticPage, trend, progress, scan, copy>>

NextDial ==
    \/ \E raw \in DialTargets : AnimateScoreDial(raw)
    \/ \E gap \in FrameGaps : DialFrame(gap)
    \/ \E b \in BOOLEAN : SetReducedMotion(b)

\* Frame callbacks keep arriving: a requested frame is eventually run.
SpecDial == Init /\ [][NextDial]_vars /\ WF_vars(\E gap \in FrameGaps : DialFrame(gap))

\* now - start of the last frame is at least ms; the states of a running and
\* of a finished animation.
DialElapsed(ms) == dial.elapsed * durationMs >= ms * DialSteps
DialRunning == dial.phase = "running" /\ dial.pending /\ ~DialElapsed(durationMs)
DialFinished == dial.phase = "done" /\ DialElapsed(durationMs)

\* C21: the dial animation terminates.  A running animation leads to a
\* frame at elapsed >= durationMs; from then on no frame is requested and
\* the score property and the number shown are the clamped target, which
\* lies in 0..100; under reduced motion animateScoreDial writes the target
\* at once and requests no frame.
DialTerminates ==
    /\ (dial.phase = "running") ~> DialFinished
    /\ [](dial.phase = "done" =>
            /\ ~dial.pending
            /\ dial.target \in 0..100
            /\ dial.score = NatToStr(dial.target)
            /\ dial.number = NatToStr(dial.target))
    /\ [](dial.phase = "running" => DialRunning)
    /\ [][dial.phase = "done" => dial' = dial]_vars
    /\ [][dial.phase = "idle" /\ trend.reducedMotion /\ dial' # dial =>
            dial'.phase = "done" /\ ~dial'.pending /\ dial'.elapsed = 0]_vars

DialTerminatesWitness ==
    /\ DialFinished
    /\ dial.target = 73
    /\ dial.score = "73"

\* ------------------------------------------------------------------------
\* The progress page (initProgressPage, fetchJob)
\* ------------------------------------------------------------------------

\* data-job-id, data-lang and data-status-label of the page body.
ProgressJobId == "a1b2"
ProgressLang == "en"
ProgressStatusLabel == "Status"

\* The status reads awaiting their response, at most.
MaxPolls == 3

\* STATUS_I18N[lang][status] || status
StatusTexts == [queued |-> "queued", running |-> "running", done |-> "done", failed |-> "failed"]
LocalizedStatus(status) ==
    IF status \in DOMAIN StatusTexts THEN StatusTexts[status] ELSE status

\* The URL fetchJob reads, and the URL the page navigates to on done.
FetchJobUrl(jobId, lang) == "/api/jobs/" \o jobId \o "?lang=" \o encodeURIComponent(lang)
ReportUrl(jobId, lang) == "/report/" \o jobId \o "?lang=" \o encodeURIComponent(lang)

\* What a status read comes to: the payload of an ok response, or the error
\* fetchJob throws (payload.detail || failedToFetch) or fetch rejects with.
JobPayload(status, pct, message) ==
    [ok |-> TRUE, status |-> status, progress |-> pct, error_message |-> message]
JobError(message) == [ok |-> FALSE, message |-> message]
JobOutcomes ==
    {JobPayload("queued", 0, ""), JobPayload("running", 10, ""),
     JobPayload("running", 40, ""), JobPayload("running", 80, ""),
     JobPayload("paused", 40, ""), JobPayload("done", 100, ""),
     JobPayload("failed", 65, "Repository not found"), JobPayload("failed", 65, ""),
     JobError("Job not found"), JobError("Failed to fetch job status.")}

IsTerminal(outcome) == ~outcome.ok \/ outcome.status \in {"done", "failed"}

ProgressFrame ==
    UNCHANGED <<form, importInput, importError, timer, preview, inflight, clock,
                generatorDefaultPalette, uncaught, staticPage, trend, dial, scan, copy>>

\* The interval callback, up to its await: one more status read in flight.
PollTick ==
    /\ progress.timer
    /\ progress.inflight < MaxPolls
    /\ progress' = [progress EXCEPT !.inflight = @ + 1]
    /\ ProgressFrame

\* A callback that leaves the timer running on status failed (what C23 excludes).
PollHandledKeepTimer(p, outcome) ==
    IF ~outcome.ok
    THEN [p EXCEPT !.timer = FALSE, !.error = outcome.message]
    ELSE LET shown == [p EXCEPT !.status = ProgressStatusLabel \o ": " \o LocalizedStatus(outcome.status),
                                !.width = NatToStr(outcome.progress) \o "%",
                                !.text = NatToStr(outcome.progress) \o "%"]
         IN  IF outcome.status = "done"
             THEN [shown EXCEPT !.timer = FALSE,
                                !.navigations = Append(@, ReportUrl(ProgressJobId, ProgressLang))]
             ELSE IF outcome.status = "failed"
             THEN [shown EXCEPT !.error = IF outcome.error_message # ""
                                          THEN outcome.error_message ELSE "Scan failed."]
             ELSE shown

\* The rest of the interval callback, run when its read settles: the status
\* line and the bar written, then done or failed handled; the catch branch on
\* an error.
PollHandled(p, outcome) ==
    IF ~outcome.ok
    THEN [p EXCEPT !.timer = FALSE, !.error = outcome.message]
    ELSE LET shown == [p EXCEPT !.status = ProgressStatusLabel \o ": " \o LocalizedStatus(outcome.status),
                                !.width = NatToStr(outcome.progress) \o "%",
                                !.text = NatToStr(outcome.progress) \o "%"]
         IN  IF outcome.status = "done"
             THEN [shown EXCEPT !.timer = FALSE,
                                !.navigations = Append(@, ReportUrl(ProgressJobId, ProgressLang))]
             ELSE IF outcome.status = "failed"
             THEN [shown EXCEPT !.timer = FALSE,
                                !.error = IF outcome.error_message # ""
                                          THEN outcome.error_message ELSE "Scan failed."]
             ELSE shown

PollResponse(outcome) ==
    /\ progress.inflight > 0
    /\ progress' = PollHandled([progress EXCEPT !.inflight = @ - 1], outcome)
    /\ ProgressFrame

NextProgress ==
    \/ PollTick
    \/ \E outcome \in JobOutcomes : PollResponse(outcome)

SpecProgress == Init /\ [][NextProgress]_vars

\* C23: the progress page polls until a terminal outcome.  While the timer
\* runs a new read can start at each tick (up to the reads in flight
\* modelled); handling done cancels the timer and navigates to the report,
\* handling failed cancels it and shows the error message, handling a failed
\* read cancels it and shows the error; a non-terminal status leaves the
\* timer running; once the timer is cancelled no read is started and the
\* timer stays cancelled.
PollUntilTerminal ==
    /\ [](progress.timer /\ progress.inflight < MaxPolls => ENABLED PollTick)
    /\ [][\A outcome \in JobOutcomes : PollResponse(outcome) =>
            /\ (outcome.ok /\ outcome.status = "done" =>
                  /\ ~progress'.timer
                  /\ progress'.navigations =
                        Append(progress.navigations, "/report/a1b2?lang=en"))
            /\ (outcome.ok /\ outcome.status = "failed" =>
                  /\ ~progress'.timer
                  /\ progress'.error \in {outcome.error_message, "Scan failed."}
                  /\ progress'.error # "")
            /\ (~outcome.ok => ~progress'.timer /\ progress'.error = outcome.message)
            /\ (~IsTerminal(outcome) => progress'.timer = progress.timer)]_vars
    /\ [][~progress.timer =>
            ~progress'.timer /\ progress'.inflight <= progress.inflight]_vars

PollUntilTerminalWitness ==
    /\ ~progress.timer
    /\ progress.inflight > 0
    /\ progress.error = "Repository not found"
    /\ progress.status = "Status: failed"

\* C26: once a terminal outcome is handled (the timer is cancelled), no
\* later response changes the status line, the progress bar or the error
\* message, and the page navigates at most once.
TerminalOutcomeFinal ==
    [][~progress.timer =>
         /\ progress'.status = progress.status
         /\ progress'.width = progress.width
         /\ progress'.text = progress.text
         /\ progress'.error = progress.error
         /\ Len(progress'.navigations) <= 1]_vars

\* ------------------------------------------------------------------------
\* The index page (initIndexPage, postScan), in two runs
\* ------------------------------------------------------------------------

\* The two runs get the same repository URL, the same clicks and the same
\* answers of the service; only the token typed may differ.
ScanLang == "en"
ScanRepoUrls == {"", " https://github.com/acme/widgets"}
ScanTokens == {"", " ", " ghp_A1 "}

\* Submissions of one run, at most.
MaxScans == 2

\* What POST /api/scan comes to: a payload with the job id, or an error
\* status with the detail of its payload ("" when it has none).
ScanAccepted(jobId) == [ok |-> TRUE, job_id |-> jobId]
ScanRejected(status, detail) == [ok |-> FALSE, status |-> status, detail |-> detail]
ScanOutcomes ==
    {ScanAccepted("a1b2"), ScanRejected(404, "Repository not found"),
     ScanRejected(422, "")}

EnterRepoUrl == "Please enter a repository URL."
FailedToStart == "Failed to start scan."
PrivateRepoTokenPrompt ==
    "Repository not found. If it is private, provide a GitHub token and try again. Token is not stored."

\* postScan, up to its fetch: the request sent.
postScan(repoUrl, githubToken) ==
    LET token == Trim(githubToken)
    IN  [method |-> "POST", url |-> "/api/scan",
         body |-> [repo_url |-> repoUrl,
                   github_token |-> IF token # "" THEN Some(token) ELSE None]]

\* The URL the submit handler navigates to.
JobPageUrl(jobId, lang) == "/jobs/" \o jobId \o "?lang=" \o encodeURIComponent(lang)

\* A navigation that carries the token along (what C24 excludes).
JobPageUrlWithToken(jobId, lang, githubToken) ==
    JobPageUrl(jobId, lang) \o "&token=" \o encodeURIComponent(githubToken)

\* data-job-id of the job page at a /jobs/<id>?lang= URL.
JobIdOfUrl(url) ==
    LET path == SubSeq(url, 1, LastIndexOf(url, "?", Len(url)) - 1)
    IN  From(path, Len("/jobs/") + 1)

\* The submit handler, up to its await.
SubmitHandled(page) ==
    LET repoUrl == Trim(page.repoUrl)
        githubToken == Trim(page.token)
    IN  IF repoUrl = ""
        THEN [page EXCEPT !.error = EnterRepoUrl]
        ELSE [page EXCEPT !.error = "",
                          !.pending = Append(@, githubToken),
                          !.requests = Append(@, postScan(repoUrl, githubToken))]

\* A handler that navigates with the token in the query (what C24 excludes).
ScanHandledWithToken(page, i, outcome) ==
    LET githubToken == page.pending[i]
        rest == [page EXCEPT !.pending = SubSeq(@, 1, i - 1) \o SubSeq(@, i + 1, Len(@))]
    IN  IF outcome.ok
        THEN LET url == JobPageUrlWithToken(outcome.job_id, ScanLang, githubToken)
             IN  [rest EXCEPT !.navigations = Append(@, url),
                              !.polls = Append(@, FetchJobUrl(outcome.job_id, ScanLang))]
        ELSE [rest EXCEPT !.error = IF outcome.detail # "" THEN outcome.detail ELSE FailedToStart]

\* The rest of the submit handler, run when postScan settles: navigation to
\* the job page (whose poller then reads the job status), or the catch branch.
ScanHandled(page, i, outcome) ==
    LET githubToken == page.pending[i]
        rest == [page EXCEPT !.pending = SubSeq(@, 1, i - 1) \o SubSeq(@, i + 1, Len(@))]
        message == IF outcome.detail # "" THEN outcome.detail ELSE FailedToStart
    IN  IF outcome.ok
        THEN LET url == JobPageUrl(outcome.job_id, ScanLang)
             IN  [rest EXCEPT !.navigations = Append(@, url),
                              !.polls = Append(@, FetchJobUrl(JobIdOfUrl(url), ScanLang))]
        ELSE IF outcome.status = 404
        THEN IF githubToken = ""
             THEN [rest EXCEPT !.tokenPanelHidden = FALSE, !.error = PrivateRepoTokenPrompt]
             ELSE [rest EXCEPT !.tokenPanelHidden = FALSE, !.error = message]
        ELSE [rest EXCEPT !.error = message]

ScanFrame ==
    UNCHANGED <<form, importInput, importError, timer, preview, inflight, clock,
                generatorDefaultPalette, uncaught, staticPage, trend, dial, progress, copy>>

\* The page is left once it navigated.
ScanOpen == \A r \in Runs : scan[r].navigations = <<>>

\* input on repo_url, the same in both runs.
ScanTypeRepoUrl(v) ==
    /\ ScanOpen
    /\ scan[1].repoUrl # v
    /\ scan' = [r \in Runs |-> [scan[r] EXCEPT !.repoUrl = v]]
    /\ ScanFrame

\* input on github_token: a token for each run.
ScanTypeToken(tokens) ==
    /\ ScanOpen
    /\ \E r \in Runs : scan[r].token # tokens[r]
    /\ scan' = [r \in Runs |-> [scan[r] EXCEPT !.token = tokens[r]]]
    /\ ScanFrame

\* submit of scan-form.
ScanSubmit ==
    /\ ScanOpen
    /\ Len(scan[1].requests) < MaxScans
    /\ scan' = [r \in Runs |-> SubmitHandled(scan[r])]
    /\ ScanFrame

\* The i-th pending POST /api/scan settles, with the same answer in both runs.
ScanRespond(i, outcome) ==
    /\ ScanOpen
    /\ i \in 1..Len(scan[1].pending)
    /\ scan' = [r \in Runs |-> ScanHandled(scan[r], i, outcome)]
    /\ ScanFrame

NextScan ==
    \/ \E v \in ScanRepoUrls : ScanTypeRepoUrl(v)
    \/ \E tokens \in [Runs -> ScanTokens] : ScanTypeToken(tokens)
    \/ ScanSubmit
    \/ \E i \in 1..MaxScans, outcome \in ScanOutcomes : ScanRespond(i, outcome)

SpecScan == Init /\ [][NextScan]_vars

\* The requests of a run with the token taken out of each body.
WithoutToken(requests) ==
    [i \in 1..Len(requests) |-> [requests[i] EXCEPT !.body.github_token = None]]

\* C24: the token is used only for the scan request.  Every request of the
\* index page is a POST to /api/scan whose body holds the token trimmed, and
\* only when that is not blank; the two runs, which differ only in the
\* token, send the same requests but for the token in the body, navigate to
\* the same job page URL and read the same job-status URLs.
TokenOnlyInScanBody ==
    /\ [](/\ scan[1].navigations = scan[2].navigations
          /\ scan[1].polls = scan[2].polls
          /\ WithoutToken(scan[1].requests) = WithoutToken(scan[2].requests)
          /\ \A r \in Runs : \A i \in 1..Len(scan[r].requests) :
                /\ scan[r].requests[i].method = "POST"
                /\ scan[r].requests[i].url = "/api/scan"
                /\ scan[r].requests[i].body.github_token \notin {Some(""), Some(" "), Some("  ")})
    /\ [][\A r \in Runs : Len(scan'[r].requests) > Len(scan[r].requests) =>
            LET sent == scan'[r].requests[Len(scan'[r].requests)].body.github_token
            IN  IF Trim(scan[r].token) = "" THEN sent = None
                ELSE sent = Some(Trim(scan[r].token))]_vars

TokenOnlyInScanBodyWitness ==
    /\ scan[1].navigations = <<"/jobs/a1b2?lang=en">>
    /\ scan[1].polls = <<"/api/jobs/a1b2?lang=en">>
    /\ scan[1].requests[1].body.github_token = Some("ghp_A1")
    /\ scan[2].requests[1].body.github_token = None

\* ------------------------------------------------------------------------
\* The copy buttons (bindEvents of the static generator, renderApiEndpoints)
\* ------------------------------------------------------------------------

\* Clipboard writes and label timers of one button not yet run, at most.
MaxCopies == 2

Copied == "Copied"

CopyFrame ==
    UNCHANGED <<form, importInput, importError, timer, preview, inflight, clock,
                generatorDefaultPalette, uncaught, staticPage, trend, dial, progress, scan>>

\* click on the button, with a text to copy: the handler up to its await.
CopyClick(b) ==
    /\ copy[b].writes + Len(copy[b].timers) < MaxCopies
    /\ copy' = [copy EXCEPT ![b].writes = @ + 1]
    /\ CopyFrame

\* The rest of the click handler, run when the clipboard write settles: the
\* label read, "Copied" shown and a timer set to restore the label read.
\* When the write fails gen-copy-url returns and .api-copy shows "Copy".
CopySettled(button, b, ok) ==
    LET settled == [button EXCEPT !.writes = @ - 1]
    IN  IF ok
        THEN [settled EXCEPT !.timers = Append(@, button.label), !.label = Copied]
        ELSE IF b = "api-copy" THEN [settled EXCEPT !.label = "Copy"]
        ELSE settled

CopyWritten(b, ok) ==
    /\ copy[b].writes > 0
    /\ copy' = [copy EXCEPT ![b] = CopySettled(copy[b], b, ok)]
    /\ CopyFrame

\* The oldest label timer of the button runs (all have the same delay):
\* textContent = prev, or before || "Copy" on an .api-copy.
CopyRestored(button, b) ==
    LET prev == Head(button.timers)
    IN  [button EXCEPT !.timers = Tail(@),
                       !.label = IF b = "api-copy" /\ prev = "" THEN "Copy" ELSE prev]

CopyTimer(b) ==
    /\ copy[b].timers # <<>>
    /\ copy' = [copy EXCEPT ![b] = CopyRestored(copy[b], b)]
    /\ CopyFrame

NextCopy ==
    \/ \E b \in CopyButtons : CopyClick(b)
    \/ \E b \in CopyButtons, ok \in BOOLEAN : CopyWritten(b, ok)
    \/ \E b \in CopyButtons : CopyTimer(b)

SpecCopy == Init /\ [][NextCopy]_vars

\* C27: once every pending label timer of a copy button has run, the button
\* shows its original label.
CopyLabelRestored ==
    \A b \in CopyButtons : copy[b].timers = <<>> => copy[b].label = CopyLabel(b)

\* ------------------------------------------------------------------------
\* The controls of the static generator (bindEvents)
\* ------------------------------------------------------------------------

StaticFrame ==
    UNCHANGED <<form, importInput, importError, timer, preview, inflight, clock,
                generatorDefaultPalette, uncaught, trend, dial, progress, scan, copy>>

\* A new value chosen in gen-kind, gen-format or gen-theme: the input event
\* and then the change event, each run through its listeners in the order
\* bindEvents added them.  The listeners of the controls list come first
\* (refreshPreview on input, refreshPreview on change), the listener of the
\* control itself after them (the syncs, then refreshPreview).
SelectChanged(p) ==
    LET onInput == refreshPreview(p)
        onChange == refreshPreview(onInput)
    IN  refreshPreview(syncHideOptions(onChange))

StaticSetKind(v) ==
    /\ v # staticPage.kind
    /\ staticPage' = SelectChanged([staticPage EXCEPT !.kind = v, !.event = "kind",
                                                      !.written = <<>>])
    /\ StaticFrame

StaticSetFormat(v) ==
    /\ v # staticPage.format
    /\ staticPage' = SelectChanged([staticPage EXCEPT !.format = v, !.event = "format",
                                                      !.written = <<>>])
    /\ StaticFrame

\* gen-theme is one of SVG_ONLY_CONTROL_IDS: disabled unless format is svg.
StaticSetTheme(v) ==
    /\ staticPage.format = "svg"
    /\ v # staticPage.theme
    /\ staticPage' = SelectChanged([staticPage EXCEPT !.theme = v, !.event = "theme",
                                                      !.written = <<>>])
    /\ StaticFrame

\* input on gen-owner / gen-repo.
StaticSetOwner(v) ==
    /\ v # staticPage.owner
    /\ staticPage' = refreshPreview([staticPage EXCEPT !.owner = v, !.event = "owner",
                                                       !.written = <<>>])
    /\ StaticFrame

StaticSetRepo(v) ==
    /\ v # staticPage.repo
    /\ staticPage' = refreshPreview([staticPage EXCEPT !.repo = v, !.event = "repo",
                                                       !.written = <<>>])
    /\ StaticFrame

\* change on an enabled .gen-hide-option: syncHideField, refreshPreview.
StaticToggleHide(v) ==
    /\ v \in HideValues \ staticPage.hideDisabled
    /\ staticPage' =
          refreshPreview(syncHideField(
              [staticPage EXCEPT !.hideChecked = IF v \in @ THEN @ \ {v} ELSE @ \cup {v},
                                 !.event = "hide", !.written = <<>>]))
    /\ StaticFrame

NextStatic ==
    \/ \E v \in Kinds : StaticSetKind(v)
    \/ \E v \in Formats : StaticSetFormat(v)
    \/ \E v \in StaticThemes : StaticSetTheme(v)
    \/ \E v \in {"", "acme"} : StaticSetOwner(v)
    \/ \E v \in {"", "widgets"} : StaticSetRepo(v)
    \/ \E v \in HideValues : StaticToggleHide(v)

SpecStatic == Init /\ [][NextStatic]_vars

\* The hide flags of a written URL and the kind it names.
WrittenUrls == {staticPage.written[i] : i \in 1..Len(staticPage.written)} \ {""}
UrlHideFlags(url) ==
    LET hide == parseApiImport(url).hide
    IN  IF IsSome(hide) THEN Tokens(Val(hide)) ELSE {}
UrlKind(url) == Val(parseApiImport(url).kind)

\* C25: on a kind, format or theme change of the static generator every URL
\* refreshPreview writes while the event is handled holds only hide flags
\* permitted for the kind that URL names.
ExportAfterSync ==
    staticPage.event \in {"kind", "format", "theme"} =>
        \A url \in WrittenUrls : UrlHideFlags(url) \subseteq HideAllowed(UrlKind(url))

\* The URL left in the field when the event is handled holds only permitted flags.
ExportAfterSyncLast ==
    staticPage.url # "" => UrlHideFlags(staticPage.url) \subseteq HideAllowed(UrlKind(staticPage.url))

\* ------------------------------------------------------------------------
\* The numeric controls under import (clampNumber)
\* ------------------------------------------------------------------------

NextClamp ==
    \/ \E v \in Kinds : SetKind(v)
    \/ \E v \in Formats : SetFormat(v)
    \/ \E v \in {"abc", "900"} : SetWidth(v)
    \/ \E text \in ClampImportTexts : TypeImport(text)
    \/ applyRepoImport

SpecClamp == Init /\ [][NextClamp]_vars

\* What the claim gives for a text v and the bounds of a control: the
\* fallback when Number(v) is not finite, else the nearer bound or v itself.
ClampExpected(v, min, max, fallback) ==
    LET n == NumberOf(v)
    IN  IF n.k # "num" THEN fallback
        ELSE IF n.v < min THEN min
        ELSE IF n.v > max THEN max
        ELSE n.v

InRangeOrFallback(text, min, max, fallback) ==
    LET n == NumberOf(text)
    IN  n.k = "num" /\ ((min <= n.v /\ n.v <= max) \/ n.v = fallback)

\* C31: clampNumber gives the fallback for a value that is no finite number,
\* min below min, max above max and the value otherwise: with the width
\* bounds "-5" gives 640, "99999" gives 1400 and "abc" gives 760, and every
\* numeric control an import sets ends in [min, max] or at its fallback.
ClampOnImport ==
    /\ [](/\ clampNumber("-5", 640, 1400, 760) = Num(640)
          /\ clampNumber("99999", 640, 1400, 760) = Num(1400)
          /\ clampNumber("abc", 640, 1400, 760) = Num(760))
    /\ [][\A v \in ClampValues : importInput = ClampImportText(v) /\ applyRepoImport =>
            /\ form'.width = NatToStr(ClampExpected(v, 640, 1400, 760))
            /\ form'.langs = NatToStr(ClampExpected(v, 1, 30, 4))
            /\ form'.duration = NatToStr(ClampExpected(v, 350, 7000, 1400))
            /\ form'.cacheSeconds = NatToStr(ClampExpected(v, 0, 86400, 21600))
            /\ InRangeOrFallback(form'.width, 640, 1400, 760)
            /\ InRangeOrFallback(form'.langs, 1, 30, 4)
            /\ InRangeOrFallback(form'.duration, 350, 7000, 1400)
            /\ InRangeOrFallback(form'.cacheSeconds, 0, 86400, 21600)]_vars

ClampOnImportWitness ==
    /\ importInput = ClampImportText("-5")
    /\ form.width = "640"
    /\ form.langs = "1"
    /\ form.duration = "350"
    /\ form.cacheSeconds = "0"
    /\ form.owner = "acme"

\* ------------------------------------------------------------------------
\* The axes of the trend chart
\* ------------------------------------------------------------------------

\* The circles of the chart a render leaves, as <<x, y>> pairs.
CirclesAfter(tr) == tr.chart[1].circles

\* C32: on the 1020 x 300 canvas with padding 42 / 32, y falls strictly as
\* the score grows, y(0) = 268 and y(100) = 32, so that every point lies in
\* the padded area; for n >= 2 samples x grows strictly with the index, from
\* x(0) = 42 to x(n - 1) = 978.
AxesMonotone ==
    /\ [](/\ \A a \in 0..100 : \A b \in (a + 1)..100 : TrendYScaled(a) > TrendYScaled(b)
          /\ TrendYScaled(0) = 268 * 100
          /\ TrendYScaled(100) = 32 * 100
          /\ \A n \in 2..(MaxSamples + 1) :
                /\ TrendXScaled(0, n) = 42 * (n - 1)
                /\ TrendXScaled(n - 1, n) = 978 * (n - 1)
                /\ \A i \in 0..(n - 2) : TrendXScaled(i, n) < TrendXScaled(i + 1, n))
    /\ [][\A history \in AxisHistories : RenderTrendChart(history) =>
            LET items == history.items
                circles == CirclesAfter(trend')
                n == Len(items)
            IN  /\ Len(circles) = n
                /\ circles[1][1] = 42
                /\ circles[n][1] = 978
                /\ \A i \in 1..(n - 1) : circles[i][1] < circles[i + 1][1]
                /\ \A i \in 1..n :
                      /\ circles[i][2] >= 32 /\ circles[i][2] <= 268
                      /\ (items[i].score_total = 0 => circles[i][2] = 268)
                      /\ (items[i].score_total = 100 => circles[i][2] = 32)
                /\ \A i \in 1..n : \A j \in 1..n :
                      items[i].score_total < items[j].score_total =>
                          circles[i][2] > circles[j][2]]_vars

AxesMonotoneWitness ==
    /\ trend.chart # <<>>
    /\ trend.chart[1].circles = <<<<42, 209>>, <<978, 91>>>>

====
